---------------------------- MODULE Spec2Model ----------------------------
(***************************************************************************)
(* A model of the salamoonder client library: the transport client         *)
(* (salamoonder/client.py), the task protocol (salamoonder/tasks.py) and   *)
(* the Akamai extractors (salamoonder/utils/akamai.py) and the DataDome    *)
(* page parsers (salamoonder/utils/datadome.py).                           *)
(*                                                                         *)
(* The specifications of the module:                                       *)
(*   SpecPoll    one call of Tasks.getTaskResult against a remote service  *)
(*               that answers each poll as it likes (SpecPollFair adds     *)
(*               that the calling thread runs on);                         *)
(*   SpecCreate  one call of Tasks.createTask, for every task type and     *)
(*               every set of keyword arguments;                           *)
(*   SpecPost    the life of a Client: construction, assignment of its     *)
(*               api_key attribute, and calls of Client._post;             *)
(*   SpecWeb     calls of AkamaiWeb.fetch_and_extract on one client;       *)
(*   SpecSensor  calls of AkamaiWeb.post_sensor on a client that may hold  *)
(*               the cookies of an earlier extraction;                     *)
(*   SpecReplay  the script examples/akamai_web.py: one extraction and the *)
(*               loop that creates a task, awaits it and posts its sensor; *)
(*   SpecSbsd    calls of AkamaiSBSD.fetch_and_extract on one client;      *)
(*   SpecSbsdPost  one call of AkamaiSBSD.post_sbsd, for every payload;    *)
(*   SpecRace    two workflows run AkamaiWeb.fetch_and_extract at the same *)
(*               time, on one client or on a client each;                  *)
(*   SpecCalls   one call of an extraction or post operation of either     *)
(*               Akamai class, from its start to its end;                  *)
(*   SpecDd      one call of Datadome.parse_slider_url or                  *)
(*               parse_interstitial_url, for every page of the model;      *)
(*   SpecUa      _extract_sec_ch_ua of both Akamai classes, for every user *)
(*               agent of the model;                                       *)
(*   SpecExtract  calls of both fetch_and_extract operations, one after    *)
(*               another, on one client.                                   *)
(***************************************************************************)
EXTENDS Integers, Sequences, FiniteSets, TLC

VARIABLES
    api_key,      \* Client.api_key, a sequence of characters
    pc,           \* where the running call stands
    net,          \* requests to the solving service that are in flight
    sentLog,      \* history: every request sent to the solving service
    resp,         \* the HTTP response the running call last received
    outcome,      \* how the call ended: returned a value or raised
    task_id,      \* getTaskResult: argument
    interval,     \* getTaskResult: argument
    attempts,     \* getTaskResult: local counter
    sleepLog,     \* history: the duration of every time.sleep
    pendingSeen,  \* history: PENDING responses the call has observed
    task_type,    \* createTask: argument
    kwargs,       \* createTask: keyword arguments, a dict
    ctor,         \* SpecPost: what Client(...) was given and how it ended
    payload,      \* SpecPost: the payload handed to _post
    hdrs,         \* client.session.headers: the names of the session's headers
    jar,          \* client.session.cookies: host -> cookie name -> value
    wpc,          \* where the running AkamaiWeb call stands
    website_url,  \* fetch_and_extract: argument
    getLog,       \* history: the GETs the running call has issued
    wresp,        \* the response the running call last received
    wlocal,       \* fetch_and_extract: base_url, akamai_url and abck
    wresult,      \* what the last AkamaiWeb call returned
    runs,         \* history: calls made on the extractor so far
    sresult,      \* what the last post_sensor call returned
    postLog,      \* history: the POSTs issued to target sites, and what each call returned
    rpc,          \* examples/akamai_web.py: where the script stands
    round,        \* examples/akamai_web.py: i of the replay loop
    current_abck, \* examples/akamai_web.py: the rolling _abck value
    current_bmsz, \* examples/akamai_web.py: the rolling bm_sz value
    RespData,     \* examples/akamai_web.py: `data` of the last solution
    taskLog,      \* history: the tasks the script created, and their solutions
    bresult,      \* what the last AkamaiSBSD.fetch_and_extract returned
    presult,      \* what the last post_sbsd call returned
    sbsd_payload, \* post_sbsd: argument, a sequence of characters
    shared,       \* two workflows: whether they work on one client instance
    sessions,     \* two workflows: client -> its session's headers and cookies
    wf,           \* two workflows: workflow -> where its call stands, and its locals
    dd_page,      \* Datadome: the page whose text is the argument `html`
    datadome_cookie, \* Datadome: argument
    referer,      \* Datadome: argument
    dd_call,      \* Datadome: the parse function called last
    dd_out,       \* Datadome: what that call returned or raised
    user_agent,   \* sec-ch-ua: the user agent given to the extractors
    web_sec_ch_ua,  \* sec-ch-ua: the header value AkamaiWeb derived
    sbsd_sec_ch_ua  \* sec-ch-ua: the header value AkamaiSBSD derived

clientVars == <<api_key, pc, net, sentLog, resp, outcome>>
pollVars   == <<task_id, interval, attempts, sleepLog, pendingSeen>>
createVars == <<task_type, kwargs>>
postVars   == <<ctor, payload>>
webVars    == <<hdrs, jar, wpc, website_url, getLog, wresp, wlocal, wresult, runs>>
sensorVars == <<sresult, postLog>>
replayVars == <<rpc, round, current_abck, current_bmsz, RespData, taskLog>>
sbsdVars   == <<bresult, presult, sbsd_payload>>
raceVars   == <<shared, sessions, wf>>
ddVars     == <<dd_page, datadome_cookie, referer, dd_call, dd_out>>
uaVars     == <<user_agent, web_sec_ch_ua, sbsd_sec_ch_ua>>
lateVars   == <<raceVars, ddVars, uaVars>>
extVars    == <<sensorVars, replayVars, sbsdVars, lateVars>>
nonRaceVars == <<clientVars, pollVars, createVars, postVars, webVars, sensorVars,
                 replayVars, sbsdVars, ddVars, uaVars>>
nonDdVars  == <<clientVars, pollVars, createVars, postVars, webVars, sensorVars,
                replayVars, sbsdVars, raceVars, uaVars>>
nonUaVars  == <<clientVars, pollVars, createVars, postVars, webVars, sensorVars,
                replayVars, sbsdVars, raceVars, ddVars>>
vars == <<api_key, pc, net, sentLog, resp, outcome, task_id, interval, attempts,
          sleepLog, pendingSeen, task_type, kwargs, ctor, payload,
          hdrs, jar, wpc, website_url, getLog, wresp, wlocal, wresult, runs,
          sresult, postLog, rpc, round, current_abck, current_bmsz, RespData,
          taskLog, bresult, presult, sbsd_payload, shared, sessions, wf,
          dd_page, datadome_cookie, referer, dd_call, dd_out,
          user_agent, web_sec_ch_ua, sbsd_sec_ch_ua>>

-----------------------------------------------------------------------------
(* Bounds of the model.                                                    *)

MaxKeyLen == 2      \* api keys are character sequences of at most this length
MaxPending == 3     \* the service answers PENDING at most this often per call
MaxRuns == 2        \* fetch_and_extract is called at most this often on one client
MaxPayloadLen == 4  \* SBSD payloads are character sequences of at most this length
MaxFields == 2      \* a DataDome `dd` object of the model has at most this many fields
MaxUaLen == 5       \* user agents are sequences of at most this many pieces

-----------------------------------------------------------------------------
(* Python values: None and str, and dicts as functions from a set of keys. *)

None == [t |-> "NoneType", v |-> ""]
Str(s) == [t |-> "str", v |-> s]

\* bool(x): None and the empty string are falsy.
Truthy(x) == x.t # "NoneType" /\ x.v # ""

\* str(x) as an f-string renders it: None becomes the text "None".
PyStr(x) == IF x.t = "NoneType" THEN "None" ELSE x.v

\* x or y
PyOr(x, y) == IF Truthy(x) THEN x ELSE y

EmptyDict == [k \in {} |-> None]

\* dict.get(k): the value, or None when the key is absent.
Get(d, k) == IF k \in DOMAIN d THEN d[k] ELSE None

\* {**a, **b}: b's entries win.
Merge(a, b) == [k \in DOMAIN a \cup DOMAIN b |-> IF k \in DOMAIN b THEN b[k] ELSE a[k]]

\* Every dict over a subset of the keys, with values from vals.
Dicts(keys, vals) == UNION {[ks -> vals] : ks \in SUBSET keys}

-----------------------------------------------------------------------------
(* salamoonder/client.py                                                   *)

Chars == {" ", "k"}
IsSpace(c) == c = " "

RECURSIVE LStrip(_)
LStrip(s) == IF s # <<>> /\ IsSpace(Head(s)) THEN LStrip(Tail(s)) ELSE s

RECURSIVE RStrip(_)
RStrip(s) ==
    IF s # <<>> /\ IsSpace(s[Len(s)]) THEN RStrip(SubSeq(s, 1, Len(s) - 1)) ELSE s

\* str.strip()
Strip(s) == RStrip(LStrip(s))

\* Every api key the model tries: the character sequences up to MaxKeyLen.
Keys == UNION {[1..n -> Chars] : n \in 0..MaxKeyLen}

\* Mutant of KeyMissing: `not api_key` alone, without the strip.
KeyMissing_EmptyOnly(key) == key = <<>>

\* `not api_key or not api_key.strip()`: the guard of Client.__init__ and of
\* Client._post.
KeyMissing(key) == key = <<>> \/ Strip(key) = <<>>

\* How a call ends.
NoOutcome == [kind |-> "none", exc |-> "", msg |-> "", value |-> None]
Returned(x) == [kind |-> "return", exc |-> "", msg |-> "", value |-> x]
Raised(e, m) == [kind |-> "raise", exc |-> e, msg |-> m, value |-> None]

create_url == "https://salamoonder.com/api/createTask"
get_url == "https://salamoonder.com/api/getTaskResult"

\* HTTP status codes the model's responses carry, as numbers and as the
\* text `%d` renders.
Codes == {200, 400, 500}
CodeText(c) == CASE c = 200 -> "200" [] c = 400 -> "400" [] c = 500 -> "500" [] OTHER -> "?"

\* A response: its status code, whether resp.json() parses the body, and the
\* parsed body (a JSON object).
Response(c, j, d) == [code |-> c, isJson |-> j, data |-> d]
NoResponse == Response(0, FALSE, EmptyDict)

\* The body _post sends: {"api_key": self.api_key, **payload}.
PostBody(key, pl) == Merge([api_key |-> key], pl)

\* Mutant of ErrorMessage: `error` is tried before `error_description`.
ErrorMessage_ErrorFirst(d) ==
    PyOr(Get(d, "error"), PyOr(Get(d, "error_description"), Str("Request failed")))

\* The message of the APIError _post raises on a status >= 400.
ErrorMessage(d) ==
    PyOr(Get(d, "error_description"), PyOr(Get(d, "error"), Str("Request failed")))

\* Mutant of PostResult: the status code is not looked at, any JSON body is
\* handed back.
PostResult_StatusUnchecked(r) ==
    IF ~r.isJson
    THEN Raised("APIError", "Invalid response from API (" \o CodeText(r.code) \o ")")
    ELSE NoOutcome

\* _post after session.post returned: what it raises, or that it returns data.
PostResult(r) ==
    IF ~r.isJson
    THEN Raised("APIError", "Invalid response from API (" \o CodeText(r.code) \o ")")
    ELSE IF r.code >= 400
         THEN Raised("APIError", PyStr(ErrorMessage(r.data)))
         ELSE NoOutcome

\* _post up to session.post: raises MissingAPIKeyError, or puts the request
\* on the wire.
PostSend(url, pl) ==
    IF KeyMissing(api_key)
    THEN /\ outcome' = Raised("MissingAPIKeyError", "API key is required")
         /\ pc' = "raised"
         /\ UNCHANGED <<net, sentLog>>
    ELSE /\ net' = net \cup {[url |-> url, body |-> PostBody(api_key, pl)]}
         /\ sentLog' = Append(sentLog, [url |-> url, body |-> PostBody(api_key, pl)])
         /\ pc' = "inflight"
         /\ UNCHANGED outcome

\* The remote end answers the request in flight with r.
Deliver(r) ==
    /\ pc = "inflight"
    /\ net # {}
    /\ net' = {}
    /\ resp' = r
    /\ pc' = "received"

Terminated == pc \in {"returned", "raised"}

-----------------------------------------------------------------------------
(* salamoonder/tasks.py: Tasks.getTaskResult                               *)

TaskIds == {Str("task_1"), None}
Intervals == {1, 5}

Statuses == {Str("PENDING"), Str("ready"), Str("failed"), Str("pending"), Str("READY"), None}
Solutions == {Str("solution_1"), None}

\* The JSON objects the getTaskResult endpoint may answer with: `status` and
\* `solution` each present or not, and an error body.
PollBodies ==
    {Merge(a, b) : a \in Dicts({"status"}, Statuses), b \in Dicts({"solution"}, Solutions)}
    \cup {[error |-> Str("task not found")]}

PollResponses ==
    {Response(c, TRUE, d) : c \in Codes, d \in PollBodies}
    \cup {Response(c, FALSE, EmptyDict) : c \in Codes}

\* Mutants of PollDecision.
\* `return data.get("status")` in place of the solution.
PollDecision_ReturnsStatus(r) ==
    LET po == PostResult(r)
        status == Get(r.data, "status")
    IN  IF po.kind = "raise" THEN [next |-> "raised", outcome |-> po]
        ELSE IF status = Str("PENDING") THEN [next |-> "sleeping", outcome |-> NoOutcome]
        ELSE IF status = Str("ready")
             THEN [next |-> "returned", outcome |-> Returned(status)]
             ELSE [next |-> "raised",
                   outcome |-> Raised("APIError", "Unexpected task status: " \o PyStr(status))]

\* `if status != "ready": sleep; continue`: an unknown status is polled again.
PollDecision_RetriesUnknown(r) ==
    LET po == PostResult(r)
        status == Get(r.data, "status")
    IN  IF po.kind = "raise" THEN [next |-> "raised", outcome |-> po]
        ELSE IF status = Str("ready")
             THEN [next |-> "returned", outcome |-> Returned(Get(r.data, "solution"))]
             ELSE [next |-> "sleeping", outcome |-> NoOutcome]

\* The test for "ready" compares with "READY": a ready task raises.
PollDecision_ReadyMisspelt(r) ==
    LET po == PostResult(r)
        status == Get(r.data, "status")
    IN  IF po.kind = "raise" THEN [next |-> "raised", outcome |-> po]
        ELSE IF status \in {Str("PENDING"), Str("ready")}
             THEN [next |-> "sleeping", outcome |-> NoOutcome]
        ELSE IF status = Str("READY")
             THEN [next |-> "returned", outcome |-> Returned(Get(r.data, "solution"))]
             ELSE [next |-> "raised",
                   outcome |-> Raised("APIError", "Unexpected task status: " \o PyStr(status))]

\* A cap on the attempts: the third PENDING response raises.
PollDecision_GivesUp(r) ==
    LET po == PostResult(r)
        status == Get(r.data, "status")
    IN  IF po.kind = "raise" THEN [next |-> "raised", outcome |-> po]
        ELSE IF status = Str("PENDING")
             THEN IF attempts >= 3
                  THEN [next |-> "raised", outcome |-> Raised("APIError", "Task timed out")]
                  ELSE [next |-> "sleeping", outcome |-> NoOutcome]
        ELSE IF status = Str("ready")
             THEN [next |-> "returned", outcome |-> Returned(Get(r.data, "solution"))]
             ELSE [next |-> "raised",
                   outcome |-> Raised("APIError", "Unexpected task status: " \o PyStr(status))]

\* What the loop body does with the response to a poll: the _post outcome
\* first, then the three-way test on data.get("status").
PollDecision(r) ==
    LET po == PostResult(r)
        status == Get(r.data, "status")
    IN  IF po.kind = "raise" THEN [next |-> "raised", outcome |-> po]
        ELSE IF status = Str("PENDING") THEN [next |-> "sleeping", outcome |-> NoOutcome]
        ELSE IF status = Str("ready")
             THEN [next |-> "returned", outcome |-> Returned(Get(r.data, "solution"))]
             ELSE [next |-> "raised",
                   outcome |-> Raised("APIError", "Unexpected task status: " \o PyStr(status))]

\* The service answered PENDING: a JSON body below status 400 whose `status`
\* is the text PENDING.
AnswersPending(r) == r.isJson /\ r.code < 400 /\ Get(r.data, "status") = Str("PENDING")

\* getTaskResult(task_id, interval) is called: attempts = 0.
getTaskResult(tid, iv) ==
    /\ pc = "idle"
    /\ task_id' = tid
    /\ interval' = iv
    /\ attempts' = 0
    /\ pc' = "loop"
    /\ UNCHANGED <<api_key, net, sentLog, resp, outcome, sleepLog, pendingSeen>>
    /\ UNCHANGED <<createVars, postVars, webVars, extVars>>

\* The top of the loop: attempts += 1 and self.client._post(get_url, {taskId}).
Poll ==
    /\ pc = "loop"
    /\ attempts' = attempts + 1
    /\ PostSend(get_url, [taskId |-> task_id])
    /\ UNCHANGED <<api_key, resp, task_id, interval, sleepLog, pendingSeen>>
    /\ UNCHANGED <<createVars, postVars, webVars, extVars>>

\* The service answers the poll. The model follows it for MaxPending + 1
\* polls, of which it answers at most MaxPending with PENDING.
PollRespond(r) ==
    /\ Len(sentLog) <= MaxPending + 1
    /\ AnswersPending(r) => Len(sentLog) <= MaxPending
    /\ Deliver(r)
    /\ UNCHANGED <<api_key, sentLog, outcome, pollVars, createVars, postVars, webVars, extVars>>

\* The rest of the loop body, on the response received.
PollHandle ==
    /\ pc = "received"
    /\ pc' = PollDecision(resp).next
    /\ outcome' = PollDecision(resp).outcome
    /\ pendingSeen' = IF AnswersPending(resp) THEN pendingSeen + 1 ELSE pendingSeen
    /\ UNCHANGED <<api_key, net, sentLog, resp, task_id, interval, attempts, sleepLog>>
    /\ UNCHANGED <<createVars, postVars, webVars, extVars>>

\* Mutant of Sleep: `continue` without the sleep.
Sleep_Skipped ==
    /\ pc = "sleeping"
    /\ pc' = "loop"
    /\ UNCHANGED <<api_key, net, sentLog, resp, outcome>>
    /\ UNCHANGED <<task_id, interval, attempts, sleepLog, pendingSeen>>
    /\ UNCHANGED <<createVars, postVars, webVars, extVars>>

\* time.sleep(interval) returns; `continue`.
Sleep ==
    /\ pc = "sleeping"
    /\ sleepLog' = Append(sleepLog, interval)
    /\ pc' = "loop"
    /\ UNCHANGED <<api_key, net, sentLog, resp, outcome, task_id, interval, attempts, pendingSeen>>
    /\ UNCHANGED <<createVars, postVars, webVars, extVars>>

-----------------------------------------------------------------------------
(* salamoonder/tasks.py: Tasks.createTask                                  *)

KnownTypes ==
    {"KasadaCaptchaSolver", "Twitch_PublicIntegrity", "IncapsulaReese84Solver",
     "IncapsulaUTMVCSolver", "AkamaiWebSensorSolver", "AkamaiSBSDSolver",
     "DataDomeSliderSolver", "DataDomeInterstitialSolver"}

\* The task types the model calls createTask with: the eight the code knows
\* and one it does not.
TaskTypes == KnownTypes \cup {"UnknownSolver"}

\* The keyword arguments the branch of each type reads.
KwRead(tt) ==
    CASE tt = "KasadaCaptchaSolver" -> {"pjs_url", "cd_only"}
      [] tt = "Twitch_PublicIntegrity" -> {"access_token", "proxy", "device_id", "client_id"}
      [] tt = "IncapsulaReese84Solver" -> {"website", "submit_payload", "user_agent"}
      [] tt = "IncapsulaUTMVCSolver" -> {"website", "user_agent"}
      [] tt = "AkamaiWebSensorSolver" ->
            {"url", "abck", "bmsz", "script", "sensor_url", "count", "data", "user_agent"}
      [] tt = "AkamaiSBSDSolver" -> {"url", "cookie", "sbsd_url", "script", "user_agent"}
      [] tt = "DataDomeSliderSolver" -> {"captcha_url", "user_agent", "country_code"}
      [] tt = "DataDomeInterstitialSolver" -> {"captcha_url", "user_agent", "country_code"}
      [] OTHER -> {}

\* The keyword arguments a caller may pass with a type: those its branch
\* reads, and two it does not read.
KwNames(tt) == KwRead(tt) \cup {"user_agent", "extra"}

\* The value a caller passes for a keyword.
KwValue(k) == Str("<" \o k \o ">")

\* Every **kwargs a caller may pass with a type.
KwargsOf(tt) == {[k \in ks |-> KwValue(k)] : ks \in SUBSET KwNames(tt)}

\* `if "k" in kwargs: task[f] = kwargs.get("k")`
IfIn(kw, k, f) == IF k \in DOMAIN kw THEN [x \in {f} |-> kw[k]] ELSE EmptyDict

\* Mutant of BuildTask: a type without a branch of its own still gets the
\* caller's user_agent.
BuildTask_UserAgentAlways(tt, kw) ==
    LET base == [type |-> Str(tt)]
    IN  CASE tt = "KasadaCaptchaSolver" ->
               Merge(base, [pjs |-> Get(kw, "pjs_url"), cdOnly |-> Get(kw, "cd_only")])
          [] tt = "Twitch_PublicIntegrity" ->
               Merge(Merge(Merge(base,
                     [access_token |-> Get(kw, "access_token"), proxy |-> Get(kw, "proxy")]),
                     IfIn(kw, "device_id", "device_id")),
                     IfIn(kw, "client_id", "client_id"))
          [] tt = "IncapsulaReese84Solver" ->
               Merge(Merge(base,
                     [website |-> Get(kw, "website"),
                      submit_payload |-> Get(kw, "submit_payload")]),
                     IfIn(kw, "user_agent", "user_agent"))
          [] tt = "IncapsulaUTMVCSolver" ->
               Merge(Merge(base, [website |-> Get(kw, "website")]),
                     IfIn(kw, "user_agent", "user_agent"))
          [] tt = "AkamaiWebSensorSolver" ->
               Merge(Merge(base,
                     [url |-> Get(kw, "url"), abck |-> Get(kw, "abck"),
                      bmsz |-> Get(kw, "bmsz"), script |-> Get(kw, "script"),
                      sensor_url |-> Get(kw, "sensor_url"), count |-> Get(kw, "count"),
                      data |-> Get(kw, "data")]),
                     IfIn(kw, "user_agent", "user_agent"))
          [] tt = "AkamaiSBSDSolver" ->
               Merge(Merge(base,
                     [url |-> Get(kw, "url"), cookie |-> Get(kw, "cookie"),
                      sbsd_url |-> Get(kw, "sbsd_url"), script |-> Get(kw, "script")]),
                     IfIn(kw, "user_agent", "user_agent"))
          [] tt = "DataDomeSliderSolver" ->
               Merge(Merge(Merge(base, [captcha_url |-> Get(kw, "captcha_url")]),
                     IfIn(kw, "user_agent", "user_agent")),
                     [country_code |-> Get(kw, "country_code")])
          [] tt = "DataDomeInterstitialSolver" ->
               Merge(Merge(Merge(base, [captcha_url |-> Get(kw, "captcha_url")]),
                     IfIn(kw, "user_agent", "user_agent")),
                     [country_code |-> Get(kw, "country_code")])
          [] OTHER -> Merge(base, IfIn(kw, "user_agent", "user_agent"))

\* The task dict createTask builds: lines 46 to 114, branch by branch.
BuildTask(tt, kw) ==
    LET base == [type |-> Str(tt)]
    IN  CASE tt = "KasadaCaptchaSolver" ->
               Merge(base, [pjs |-> Get(kw, "pjs_url"), cdOnly |-> Get(kw, "cd_only")])
          [] tt = "Twitch_PublicIntegrity" ->
               Merge(Merge(Merge(base,
                     [access_token |-> Get(kw, "access_token"), proxy |-> Get(kw, "proxy")]),
                     IfIn(kw, "device_id", "device_id")),
                     IfIn(kw, "client_id", "client_id"))
          [] tt = "IncapsulaReese84Solver" ->
               Merge(Merge(base,
                     [website |-> Get(kw, "website"),
                      submit_payload |-> Get(kw, "submit_payload")]),
                     IfIn(kw, "user_agent", "user_agent"))
          [] tt = "IncapsulaUTMVCSolver" ->
               Merge(Merge(base, [website |-> Get(kw, "website")]),
                     IfIn(kw, "user_agent", "user_agent"))
          [] tt = "AkamaiWebSensorSolver" ->
               Merge(Merge(base,
                     [url |-> Get(kw, "url"), abck |-> Get(kw, "abck"),
                      bmsz |-> Get(kw, "bmsz"), script |-> Get(kw, "script"),
                      sensor_url |-> Get(kw, "sensor_url"), count |-> Get(kw, "count"),
                      data |-> Get(kw, "data")]),
                     IfIn(kw, "user_agent", "user_agent"))
          [] tt = "AkamaiSBSDSolver" ->
               Merge(Merge(base,
                     [url |-> Get(kw, "url"), cookie |-> Get(kw, "cookie"),
                      sbsd_url |-> Get(kw, "sbsd_url"), script |-> Get(kw, "script")]),
                     IfIn(kw, "user_agent", "user_agent"))
          [] tt = "DataDomeSliderSolver" ->
               Merge(Merge(Merge(base, [captcha_url |-> Get(kw, "captcha_url")]),
                     IfIn(kw, "user_agent", "user_agent")),
                     [country_code |-> Get(kw, "country_code")])
          [] tt = "DataDomeInterstitialSolver" ->
               Merge(Merge(Merge(base, [captcha_url |-> Get(kw, "captcha_url")]),
                     IfIn(kw, "user_agent", "user_agent")),
                     [country_code |-> Get(kw, "country_code")])
          [] OTHER -> base

\* The keys createTask runs with in SpecCreate: one that passes the guard of
\* _post and one that does not.
CreateKeys == {<<"k">>, <<>>}

TaskIdValues == {Str("id_1"), None}

\* The JSON objects the createTask endpoint may answer with.
CreateBodies ==
    Dicts({"taskId"}, TaskIdValues)
    \cup {[error |-> Str("bad task")],
          [error_description |-> Str("no credit"), error |-> Str("payment")]}

CreateResponses ==
    {Response(c, TRUE, d) : c \in Codes, d \in CreateBodies}
    \cup {Response(c, FALSE, EmptyDict) : c \in Codes}

\* createTask(task_type, **kwargs) up to the request of _post: builds the task
\* and posts {"task": task} to create_url.
createTask(tt, kw) ==
    /\ pc = "idle"
    /\ task_type' = tt
    /\ kwargs' = kw
    /\ PostSend(create_url, [task |-> BuildTask(tt, kw)])
    /\ UNCHANGED <<api_key, resp, pollVars, postVars, webVars, extVars>>

\* The service answers the createTask request.
CreateRespond(r) ==
    /\ Deliver(r)
    /\ UNCHANGED <<api_key, sentLog, outcome, pollVars, createVars, postVars, webVars, extVars>>

\* What createTask does with the response: the _post outcome, else
\* data.get("taskId").
CreateResult(r) ==
    IF PostResult(r).kind = "raise" THEN PostResult(r) ELSE Returned(Get(r.data, "taskId"))

\* The rest of createTask, on the response received.
CreateHandle ==
    /\ pc = "received"
    /\ outcome' = CreateResult(resp)
    /\ pc' = IF CreateResult(resp).kind = "raise" THEN "raised" ELSE "returned"
    /\ UNCHANGED <<api_key, net, sentLog, resp, pollVars, createVars, postVars, webVars, extVars>>

-----------------------------------------------------------------------------
(* salamoonder/client.py: Client.__init__ and Client._post                 *)

NoClient == [state |-> "none", given |-> <<>>]

\* Client(api_key): raises MissingAPIKeyError, or stores the key.
ClientInit(key) ==
    /\ ctor.state = "none"
    /\ IF KeyMissing(key)
       THEN /\ ctor' = [state |-> "raised", given |-> key]
            /\ UNCHANGED api_key
       ELSE /\ ctor' = [state |-> "ok", given |-> key]
            /\ api_key' = key
    /\ UNCHANGED <<pc, net, sentLog, resp, outcome, payload, pollVars, createVars, webVars, extVars>>

\* The caller assigns client.api_key between calls: the attribute is public,
\* which is why _post tests it again.
SetApiKey(key) ==
    /\ ctor.state = "ok"
    /\ pc = "idle"
    /\ api_key' = key
    /\ UNCHANGED <<pc, net, sentLog, resp, outcome, postVars, pollVars, createVars, webVars, extVars>>

\* The payloads the callers of _post hand it, with their urls.
PostCalls ==
    {[url |-> get_url, payload |-> [taskId |-> Str("task_1")]],
     [url |-> create_url, payload |-> [task |-> BuildTask("IncapsulaUTMVCSolver", EmptyDict)]]}

ErrorDescriptions == {Str("no credit"), Str(""), None}
Errors == {Str("payment"), Str(""), None}

\* The JSON objects an endpoint may answer _post with: `error_description` and
\* `error` each present or not, holding text, the empty text or null.
PostBodies ==
    {Merge(a, b) : a \in Dicts({"error_description"}, ErrorDescriptions),
                   b \in Dicts({"error"}, Errors)}

PostResponses ==
    {Response(c, TRUE, d) : c \in Codes, d \in PostBodies}
    \cup {Response(c, FALSE, EmptyDict) : c \in Codes}

\* client._post(url, payload) up to session.post.
PostCall(c) ==
    /\ ctor.state = "ok"
    /\ pc = "idle"
    /\ payload' = c.payload
    /\ PostSend(c.url, c.payload)
    /\ UNCHANGED <<api_key, resp, ctor, pollVars, createVars, webVars, extVars>>

\* The endpoint answers.
PostRespond(r) ==
    /\ Deliver(r)
    /\ UNCHANGED <<api_key, sentLog, outcome, pollVars, createVars, postVars, webVars, extVars>>

\* The rest of _post: raise APIError, or return data.
PostHandle ==
    /\ pc = "received"
    /\ IF PostResult(resp).kind = "raise"
       THEN outcome' = PostResult(resp) /\ pc' = "raised"
       ELSE outcome' = [kind |-> "return", exc |-> "", msg |-> "", value |-> resp.data]
            /\ pc' = "returned"
    /\ UNCHANGED <<api_key, net, sentLog, resp, pollVars, createVars, postVars, webVars, extVars>>

-----------------------------------------------------------------------------
(* salamoonder/utils/akamai.py: AkamaiWeb.fetch_and_extract                *)

\* A URL as urlparse splits it.
Url(sch, h, p) == [scheme |-> sch, host |-> h, path |-> p]
NoUrl == Url("", "", "")

Hosts == {"a.example", "b.example"}

\* The pages fetch_and_extract is called with.
WebsiteUrls == {Url("https", "a.example", "/hotels"), Url("https", "b.example", "/")}

\* f"{parsed_url.scheme}://{parsed_url.netloc}"
BaseUrl(u) == Url(u.scheme, u.host, "")

\* urljoin(base_url, path) for a path that starts with one "/".
UrlJoin(base, p) == Url(base.scheme, base.host, p)

\* A <script> tag of a page: whether it opens with type="text/javascript",
\* the text of its src attribute ("" when it has none), whether `">` follows
\* the src at once, and whether a line break follows the tag.
Tag(js, src, closed, nl) == [js |-> js, src |-> src, closed |-> closed, nl |-> nl]

\* Whether (/[0-9A-Za-z\-\_]+)+ matches the whole of a src text of the model.
PathMatches(src) ==
    CASE src = "/akam/13/pixel_7a" -> TRUE
      [] src = "/x-1/y_2" -> TRUE
      [] src = "/static/app.js" -> FALSE
      [] src = "https://cdn.example/lib" -> FALSE
      [] OTHER -> FALSE

\* The pages the target may answer with.
HtmlDocs ==
    {<<>>,
     <<Tag(TRUE, "/akam/13/pixel_7a", TRUE, TRUE)>>,
     <<Tag(FALSE, "/akam/13/pixel_7a", TRUE, TRUE)>>,
     <<Tag(TRUE, "/akam/13/pixel_7a", FALSE, TRUE)>>,
     <<Tag(TRUE, "/static/app.js", TRUE, TRUE)>>,
     <<Tag(TRUE, "", TRUE, FALSE), Tag(FALSE, "/x-1/y_2", TRUE, TRUE)>>,
     <<Tag(TRUE, "https://cdn.example/lib", TRUE, TRUE), Tag(FALSE, "/x-1/y_2", TRUE, TRUE)>>,
     <<Tag(FALSE, "/x-1/y_2", TRUE, FALSE), Tag(TRUE, "/akam/13/pixel_7a", TRUE, TRUE)>>}

\* re.search(r'<script type="text/javascript".*?src="((/[0-9A-Za-z\-\_]+)+)">', html):
\* a start at a tag that opens with the type, then lazily to the first src on
\* the same line that the path pattern matches up to `">`. The leftmost start
\* wins, then the nearest src. "" when nothing matches.
AkamaiPath(html) ==
    LET SameLine(i, j) == \A k \in i..(j - 1) : ~html[k].nl
        Hit(i, j) == /\ i <= j
                     /\ html[i].js
                     /\ PathMatches(html[j].src)
                     /\ html[j].closed
                     /\ SameLine(i, j)
        Starts == {i \in 1..Len(html) : \E j \in 1..Len(html) : Hit(i, j)}
    IN  IF Starts = {} THEN ""
        ELSE LET i0 == CHOOSE i \in Starts : \A k \in Starts : i <= k
                 j0 == CHOOSE j \in 1..Len(html) :
                           Hit(i0, j) /\ \A k \in 1..Len(html) : Hit(i0, k) => j <= k
             IN  html[j0].src

\* Mutant of get_akamai_url: the base keeps the path of the website URL.
get_akamai_url_KeepsPath(html, url) ==
    IF AkamaiPath(html) = ""
    THEN [base_url |-> NoUrl, akamai_url |-> NoUrl]
    ELSE [base_url |-> url, akamai_url |-> UrlJoin(BaseUrl(url), AkamaiPath(html))]

\* _get_akamai_url(html, website_url): (base_url, akamai_url), or (None, None).
get_akamai_url(html, url) ==
    IF AkamaiPath(html) = ""
    THEN [base_url |-> NoUrl, akamai_url |-> NoUrl]
    ELSE [base_url |-> BaseUrl(url), akamai_url |-> UrlJoin(BaseUrl(url), AkamaiPath(html))]

\* A response of the target: status, body text (a page or a script) and the
\* cookies it sets, name -> value.
WebResponse(st, html, text, ck) == [status |-> st, html |-> html, text |-> text, cookies |-> ck]
NoWebResponse == WebResponse(0, <<>>, "", [k \in {} |-> ""])

WebStatuses == {200, 403}

\* The cookies a response from a host may set: `_abck` absent, empty or
\* with a value; `bm_sz` absent or with a value.
SetCookies(h) ==
    {[k \in ks |-> IF k = "_abck" /\ e THEN "" ELSE k \o "@" \o h] :
        ks \in SUBSET {"_abck", "bm_sz"}, e \in BOOLEAN}

PageResponses(h) ==
    {WebResponse(st, html, "", ck) : st \in WebStatuses, html \in HtmlDocs, ck \in SetCookies(h)}

ScriptResponses(h) ==
    {WebResponse(st, <<>>, tx, ck) :
        st \in WebStatuses, tx \in {"", "(function(){})()"},
        ck \in {c \in SetCookies(h) : "_abck" \notin DOMAIN c}}

\* The session stores the cookies a response sets under the host asked.
StoreCookies(j, h, ck) == [j EXCEPT ![h] = Merge(j[h], ck)]

EmptyJar == [h \in Hosts |-> [k \in {} |-> ""]]

\* session.cookies.get(name), asked without a domain: the value of a cookie
\* of that name; None ("" here, as falsy) when the jar holds none. With that
\* name under several hosts the answer is any one of them.
JarGet(j, name) ==
    IF \E h \in Hosts : name \in DOMAIN j[h]
    THEN {j[h][name] : h \in {x \in Hosts : name \in DOMAIN j[x]}}
    ELSE {""}

\* resp.cookies.get(name): "" stands for None, both falsy.
CookieGet(ck, name) == IF name \in DOMAIN ck THEN ck[name] ELSE ""

NoLocal == [base_url |-> NoUrl, akamai_url |-> NoUrl, abck |-> ""]

\* The dict fetch_and_extract returns; ok = FALSE stands for None.
NoResult ==
    [ok |-> FALSE, base_url |-> NoUrl, akamai_url |-> NoUrl, script_data |-> "",
     abck |-> "", bm_sz |-> ""]
WebResult(b, a, sd, ab, bz) ==
    [ok |-> TRUE, base_url |-> b, akamai_url |-> a, script_data |-> sd, abck |-> ab, bm_sz |-> bz]

\* Session headers a caller may have left on the session.
SessionHeaders == {"x-requested-with"}

\* fetch_and_extract(website_url, ...) up to the first client.get: clears the
\* session headers and requests the page.
fetch_and_extract(url) ==
    /\ wpc = "idle"
    /\ runs < MaxRuns
    /\ runs' = runs + 1
    /\ hdrs' = {}
    /\ website_url' = url
    /\ getLog' = <<url>>
    /\ wresult' = NoResult
    /\ wlocal' = NoLocal
    /\ wpc' = "page_get"
    /\ UNCHANGED <<jar, wresp, clientVars, pollVars, createVars, postVars, extVars>>

\* The target answers the page GET; the session keeps the cookies it sets.
PageRespond(r) ==
    /\ wpc = "page_get"
    /\ wresp' = r
    /\ jar' = StoreCookies(jar, website_url.host, r.cookies)
    /\ wpc' = "page_got"
    /\ UNCHANGED <<hdrs, website_url, getLog, wlocal, wresult, runs>>
    /\ UNCHANGED <<clientVars, pollVars, createVars, postVars, extVars>>

\* Mutant of PageCheck: the `_abck` test is left for after the script fetch.
PageCheck_AbckUnchecked(r, url) ==
    IF r.status # 200 THEN "status"
    ELSE IF get_akamai_url(r.html, url).akamai_url = NoUrl THEN "akamai_url"
    ELSE ""

\* Lines 128 to 144: the checks on the page response. "" when they pass, else
\* the check that returns None.
PageCheck(r, url) ==
    IF r.status # 200 THEN "status"
    ELSE IF get_akamai_url(r.html, url).akamai_url = NoUrl THEN "akamai_url"
    ELSE IF CookieGet(r.cookies, "_abck") = "" THEN "abck"
    ELSE ""

\* Mutant of PageHandle: a page that fails a check is requested once more.
PageHandle_Refetch ==
    /\ wpc = "page_got"
    /\ IF PageCheck(wresp, website_url) # ""
       THEN IF Len(getLog) < 2
            THEN /\ getLog' = Append(getLog, website_url)
                 /\ wpc' = "page_get"
                 /\ UNCHANGED <<wresult, wlocal>>
            ELSE /\ wresult' = NoResult
                 /\ wpc' = "idle"
                 /\ UNCHANGED <<getLog, wlocal>>
       ELSE /\ wlocal' = [base_url |-> get_akamai_url(wresp.html, website_url).base_url,
                          akamai_url |-> get_akamai_url(wresp.html, website_url).akamai_url,
                          abck |-> CookieGet(wresp.cookies, "_abck")]
            /\ getLog' = Append(getLog, get_akamai_url(wresp.html, website_url).akamai_url)
            /\ wpc' = "script_get"
            /\ UNCHANGED wresult
    /\ UNCHANGED <<hdrs, jar, website_url, wresp, runs>>
    /\ UNCHANGED <<clientVars, pollVars, createVars, postVars, extVars>>

\* Lines 128 to 159: return None on a failed check, else request the script.
PageHandle ==
    /\ wpc = "page_got"
    /\ IF PageCheck(wresp, website_url) # ""
       THEN /\ wresult' = NoResult
            /\ wpc' = "idle"
            /\ UNCHANGED <<getLog, wlocal>>
       ELSE /\ wlocal' = [base_url |-> get_akamai_url(wresp.html, website_url).base_url,
                          akamai_url |-> get_akamai_url(wresp.html, website_url).akamai_url,
                          abck |-> CookieGet(wresp.cookies, "_abck")]
            /\ getLog' = Append(getLog, get_akamai_url(wresp.html, website_url).akamai_url)
            /\ wpc' = "script_get"
            /\ UNCHANGED wresult
    /\ UNCHANGED <<hdrs, jar, website_url, wresp, runs>>
    /\ UNCHANGED <<clientVars, pollVars, createVars, postVars, extVars>>

\* The target answers the script GET.
ScriptRespond(r) ==
    /\ wpc = "script_get"
    /\ wresp' = r
    /\ jar' = StoreCookies(jar, wlocal.akamai_url.host, r.cookies)
    /\ wpc' = "script_got"
    /\ UNCHANGED <<hdrs, website_url, getLog, wlocal, wresult, runs>>
    /\ UNCHANGED <<clientVars, pollVars, createVars, postVars, extVars>>

\* Mutant of ScriptHandle: an empty script body is refused as well.
ScriptHandle_BodyChecked ==
    /\ wpc = "script_got"
    /\ \E bm_sz \in JarGet(jar, "bm_sz") :
          wresult' = IF wresp.status # 200 \/ bm_sz = "" \/ wresp.text = ""
                     THEN NoResult
                     ELSE WebResult(wlocal.base_url, wlocal.akamai_url, wresp.text,
                                    wlocal.abck, bm_sz)
    /\ wpc' = "idle"
    /\ UNCHANGED <<hdrs, jar, website_url, getLog, wresp, wlocal, runs>>
    /\ UNCHANGED <<clientVars, pollVars, createVars, postVars, extVars>>

\* Lines 161 to 181: the checks on the script response, and the result.
ScriptHandle ==
    /\ wpc = "script_got"
    /\ \E bm_sz \in JarGet(jar, "bm_sz") :
          wresult' = IF wresp.status # 200 \/ bm_sz = ""
                     THEN NoResult
                     ELSE WebResult(wlocal.base_url, wlocal.akamai_url, wresp.text,
                                    wlocal.abck, bm_sz)
    /\ wpc' = "idle"
    /\ UNCHANGED <<hdrs, jar, website_url, getLog, wresp, wlocal, runs>>
    /\ UNCHANGED <<clientVars, pollVars, createVars, postVars, extVars>>

-----------------------------------------------------------------------------
(* salamoonder/utils/akamai.py: AkamaiWeb.post_sensor                      *)

\* The bodies the sensor endpoint may answer with.
SensorTexts ==
    {"<html>", "{}", "{\"success\": \"false\"}", "{\"success\": \"true\"}"}

\* resp.json(): the dict parsed, or ok = FALSE where it raises.
Json(text) ==
    CASE text = "{}" -> [ok |-> TRUE, d |-> EmptyDict]
      [] text = "{\"success\": \"false\"}" -> [ok |-> TRUE, d |-> [success |-> Str("false")]]
      [] text = "{\"success\": \"true\"}" -> [ok |-> TRUE, d |-> [success |-> Str("true")]]
      [] OTHER -> [ok |-> FALSE, d |-> EmptyDict]

SensorStatuses == {201, 200, 403}

SensorResponses(h) ==
    {WebResponse(st, <<>>, tx, ck) :
        st \in SensorStatuses, tx \in SensorTexts, ck \in SetCookies(h)}

\* What post_sensor is called with: the script URL of the page, as
\* fetch_and_extract gives it, and a sensor string.
AkamaiUrlOf(u) == UrlJoin(BaseUrl(u), "/akam/13/pixel_7a")
SensorData == {"sensor0"}

\* dict(self.client.session.cookies): name -> value over every name the jar
\* holds; with a name under several hosts, the value of any one of them.
JarDicts(j) ==
    LET names == UNION {DOMAIN j[h] : h \in Hosts}
    IN  {d \in [names -> UNION {{j[h][n] : n \in DOMAIN j[h]} : h \in Hosts}] :
            \A n \in names : d[n] \in JarGet(j, n)}

\* The dict post_sensor returns; ok = FALSE stands for None.
NoSensorResult == [ok |-> FALSE, d |-> EmptyDict]
SensorResult(abck, bm_sz, cookies) ==
    [ok |-> TRUE, d |-> ("_abck" :> abck) @@ ("bm_sz" :> bm_sz) @@ ("cookies" :> cookies)]

\* Mutant of SensorAbck: the jar's `_abck` where the response sets none.
SensorAbck_OrJar(r, j) ==
    IF CookieGet(r.cookies, "_abck") # "" THEN {CookieGet(r.cookies, "_abck")}
    ELSE JarGet(j, "_abck")

\* Line 271: abck = resp.cookies.get("_abck").
SensorAbck(r, j) == {CookieGet(r.cookies, "_abck")}

\* Line 278: resp.cookies.get("bm_sz") or self.client.session.cookies.get("bm_sz").
SensorBmsz(r, j) ==
    IF CookieGet(r.cookies, "bm_sz") # "" THEN {CookieGet(r.cookies, "bm_sz")}
    ELSE JarGet(j, "bm_sz")

\* Mutant of SensorCheck: the body's success field is read at every status.
SensorCheck_SuccessAnyStatus(r, abck) ==
    IF Json(r.text).ok /\ Get(Json(r.text).d, "success") = Str("false") THEN "success"
    ELSE IF r.status # 201 THEN "status"
    ELSE IF abck = "" THEN "abck"
    ELSE ""

\* Lines 259 to 275: the checks on the sensor response. "" when they pass,
\* else the check that returns None. The body is parsed only where the status
\* is not 201, and whatever the parse gives, None is returned there.
SensorCheck(r, abck) ==
    IF r.status # 201
    THEN IF Json(r.text).ok /\ Get(Json(r.text).d, "success") = Str("false")
         THEN "success"
         ELSE "status"
    ELSE IF abck = "" THEN "abck"
    ELSE ""

\* post_sensor(akamai_url, sensor_data, user_agent, website_url) up to
\* client.post: the request carries its own headers, the session's are left.
post_sensor(aurl, sd, url) ==
    /\ wpc = "idle"
    /\ runs' = runs + 1
    /\ postLog' = Append(postLog, [url |-> aurl, body |-> [sensor_data |-> sd],
                                   origin |-> BaseUrl(url), referer |-> url,
                                   result |-> NoSensorResult])
    /\ sresult' = NoSensorResult
    /\ wpc' = "sensor_post"
    /\ UNCHANGED <<hdrs, jar, website_url, getLog, wresp, wlocal, wresult>>
    /\ UNCHANGED <<clientVars, pollVars, createVars, postVars, replayVars, sbsdVars>>
    /\ UNCHANGED lateVars

\* The host the last POST went to.
PostHost == IF postLog = <<>> THEN "" ELSE postLog[Len(postLog)].url.host

\* The target answers the POST; the session keeps the cookies it sets.
SensorRespond(r) ==
    /\ wpc = "sensor_post"
    /\ wresp' = r
    /\ jar' = StoreCookies(jar, PostHost, r.cookies)
    /\ wpc' = "sensor_got"
    /\ UNCHANGED <<hdrs, website_url, getLog, wlocal, wresult, runs>>
    /\ UNCHANGED <<clientVars, pollVars, createVars, postVars, extVars>>

\* Lines 257 to 288: the checks on the response, and the result.
SensorHandle ==
    /\ wpc = "sensor_got"
    /\ \E abck \in SensorAbck(wresp, jar), bm_sz \in SensorBmsz(wresp, jar),
          cookies \in JarDicts(jar) :
          sresult' = IF SensorCheck(wresp, abck) # ""
                     THEN NoSensorResult
                     ELSE SensorResult(abck, bm_sz, cookies)
    /\ postLog' = [postLog EXCEPT ![Len(postLog)].result = sresult']
    /\ wpc' = "idle"
    /\ UNCHANGED <<hdrs, jar, website_url, getLog, wresp, wlocal, wresult, runs>>
    /\ UNCHANGED <<clientVars, pollVars, createVars, postVars, replayVars, sbsdVars>>
    /\ UNCHANGED lateVars

-----------------------------------------------------------------------------
(* examples/akamai_web.py: the replay loop                                 *)

Rounds == 3

\* An int, with its decimal text as the value.
PyInt(i) == [t |-> "int", v |-> ToString(i)]

\* The text of a URL.
UrlText(u) == u.scheme \o "://" \o u.host \o u.path

\* URL of the script.
ReplayUrl == Url("https", "a.example", "/hotels")

\* The solutions the service may give a task of round i: `payload`, the
\* sensor string to post, and `data`, the context for the next round.
NoSolution == [payload |-> "", data |-> ""]
ReplaySolutions(i) ==
    {[payload |-> "sensor" \o ToString(i), data |-> d] : d \in {"", "ctx" \o ToString(i)}}

\* Lines 22 to 32: the keyword arguments of createTask.
ReplayKwargs ==
    [url |-> Str(UrlText(wresult.base_url)), abck |-> Str(current_abck),
     bmsz |-> Str(current_bmsz), script |-> Str(wresult.script_data),
     sensor_url |-> Str(UrlText(wresult.akamai_url)), user_agent |-> Str("<user_agent>"),
     count |-> PyInt(round), data |-> Str(RespData)]

\* Line 10: the script calls fetch_and_extract on its new client.
ReplayFetch == rpc = "fetch" /\ runs = 0 /\ fetch_and_extract(ReplayUrl)

\* Lines 16 to 19, once fetch_and_extract has returned: with a result the
\* loop is entered, without one the script is over.
ReplayData ==
    /\ rpc = "fetch" /\ runs = 1 /\ wpc = "idle"
    /\ IF wresult.ok
       THEN /\ current_abck' = wresult.abck
            /\ current_bmsz' = wresult.bm_sz
            /\ RespData' = ""
            /\ round' = 0
            /\ rpc' = "create"
       ELSE /\ rpc' = "done"
            /\ UNCHANGED <<current_abck, current_bmsz, RespData, round>>
    /\ UNCHANGED <<taskLog, sensorVars, sbsdVars>>
    /\ UNCHANGED <<clientVars, pollVars, createVars, postVars, webVars>>
    /\ UNCHANGED lateVars

\* Lines 22 to 32: createTask sends the task; it returns a task id (made =
\* TRUE) or raises APIError, which ends the script.
ReplayCreate(made) ==
    /\ rpc = "create"
    /\ taskLog' = Append(taskLog, [task |-> BuildTask("AkamaiWebSensorSolver", ReplayKwargs),
                                   solution |-> NoSolution])
    /\ rpc' = IF made THEN "poll" ELSE "APIError"
    /\ UNCHANGED <<round, current_abck, current_bmsz, RespData, sensorVars, sbsdVars>>
    /\ UNCHANGED <<clientVars, pollVars, createVars, postVars, webVars>>
    /\ UNCHANGED lateVars

\* Lines 34 to 36: getTaskResult returns the solution, whose `payload` and
\* `data` the script reads.
ReplayPoll(sol) ==
    /\ rpc = "poll"
    /\ taskLog' = [taskLog EXCEPT ![Len(taskLog)].solution = sol]
    /\ RespData' = sol.data
    /\ rpc' = "post"
    /\ UNCHANGED <<round, current_abck, current_bmsz, sensorVars, sbsdVars>>
    /\ UNCHANGED <<clientVars, pollVars, createVars, postVars, webVars>>
    /\ UNCHANGED lateVars

\* Line 34: getTaskResult raises APIError, which ends the script.
ReplayPollRaises ==
    /\ rpc = "poll"
    /\ rpc' = "APIError"
    /\ UNCHANGED <<round, current_abck, current_bmsz, RespData, taskLog, sensorVars, sbsdVars>>
    /\ UNCHANGED <<clientVars, pollVars, createVars, postVars, webVars>>
    /\ UNCHANGED lateVars

\* Lines 39 to 45: the script posts the payload of this round's solution.
ReplayPost ==
    /\ rpc = "post" /\ Len(postLog) = round
    /\ post_sensor(wresult.akamai_url, taskLog[Len(taskLog)].solution.payload, ReplayUrl)

\* Mutant of ReplayCookie: a failed post goes on to the next round.
ReplayCookie_Continue ==
    /\ rpc = "post" /\ Len(postLog) = round + 1 /\ wpc = "idle"
    /\ IF sresult.ok
       THEN /\ rpc' = "KeyError"
            /\ UNCHANGED <<round, current_abck, current_bmsz>>
       ELSE /\ rpc' = IF round + 1 < Rounds THEN "create" ELSE "done"
            /\ round' = IF round + 1 < Rounds THEN round + 1 ELSE round
            /\ UNCHANGED <<current_abck, current_bmsz>>
    /\ UNCHANGED <<RespData, taskLog, sensorVars, sbsdVars>>
    /\ UNCHANGED <<clientVars, pollVars, createVars, postVars, webVars>>
    /\ UNCHANGED lateVars

\* Lines 47 to 53, once post_sensor has returned. A returned dict is truthy;
\* cookie['abck'] raises KeyError where the dict has no such key, and the
\* script ends there; cookie.get('bm_sz', current_bmsz) is the dict's entry
\* where it has one. Without a result the loop is left.
ReplayCookie ==
    /\ rpc = "post" /\ Len(postLog) = round + 1 /\ wpc = "idle"
    /\ IF sresult.ok
       THEN IF "abck" \in DOMAIN sresult.d
            THEN /\ current_abck' = sresult.d["abck"]
                 /\ current_bmsz' = IF "bm_sz" \in DOMAIN sresult.d
                                    THEN sresult.d["bm_sz"] ELSE current_bmsz
                 /\ round' = IF round + 1 < Rounds THEN round + 1 ELSE round
                 /\ rpc' = IF round + 1 < Rounds THEN "create" ELSE "done"
            ELSE /\ rpc' = "KeyError"
                 /\ UNCHANGED <<round, current_abck, current_bmsz>>
       ELSE /\ rpc' = "done"
            /\ UNCHANGED <<round, current_abck, current_bmsz>>
    /\ UNCHANGED <<RespData, taskLog, sensorVars, sbsdVars>>
    /\ UNCHANGED <<clientVars, pollVars, createVars, postVars, webVars>>
    /\ UNCHANGED lateVars

-----------------------------------------------------------------------------
(* salamoonder/utils/akamai.py: AkamaiSBSD                                 *)

\* The <script> src texts of the pages, and whether
\* [^"\']*/\.well-known/sbsd/[^"\']+ (IGNORECASE) matches the whole of one.
SbsdSrcMatches(src) ==
    CASE src = "/.well-known/sbsd/v1" -> TRUE
      [] src = "/.WELL-KNOWN/SBSD/v1" -> TRUE
      [] src = "https://b.example/.well-known/sbsd/v1" -> TRUE
      [] src = "/.well-known/sbsd/" -> FALSE
      [] src = "/static/app.js" -> FALSE
      [] OTHER -> FALSE

\* The pages the target may answer with, as their <script> tags.
SbsdDocs ==
    {<<>>,
     <<Tag(FALSE, "/.well-known/sbsd/v1", TRUE, TRUE)>>,
     <<Tag(TRUE, "/static/app.js", TRUE, TRUE), Tag(FALSE, "/.WELL-KNOWN/SBSD/v1", TRUE, TRUE)>>,
     <<Tag(FALSE, "https://b.example/.well-known/sbsd/v1", TRUE, TRUE)>>,
     <<Tag(FALSE, "/.well-known/sbsd/", TRUE, TRUE)>>}

\* urljoin(base_url, src): an absolute src stands for itself, a src that
\* starts with "/" is put under the base.
SbsdJoin(base, src) ==
    IF src = "https://b.example/.well-known/sbsd/v1"
    THEN Url("https", "b.example", "/.well-known/sbsd/v1")
    ELSE Url(base.scheme, base.host, src)

\* _get_sbsd_url(html, base_url): the src of the first tag that matches,
\* joined to the base; NoUrl stands for None.
get_sbsd_url(html, base) ==
    LET hits == {i \in 1..Len(html) : SbsdSrcMatches(html[i].src)}
    IN  IF hits = {} THEN NoUrl
        ELSE SbsdJoin(base, html[CHOOSE i \in hits : \A k \in hits : i <= k].src)

\* The cookies a response of an SBSD target may set.
SbsdCookies(h) ==
    {[k \in ks |-> k \o "@" \o h] : ks \in SUBSET {"bm_so", "sbsd_o"}}

SbsdPageResponses(h) ==
    {WebResponse(st, html, "", ck) : st \in WebStatuses, html \in SbsdDocs, ck \in SbsdCookies(h)}

SbsdScriptResponses(h) ==
    {WebResponse(st, <<>>, tx, ck) :
        st \in WebStatuses, tx \in {"", "(function(){})()"}, ck \in SbsdCookies(h)}

\* The dict AkamaiSBSD.fetch_and_extract returns; ok = FALSE stands for None.
NoSbsdResult ==
    [ok |-> FALSE, base_url |-> NoUrl, sbsd_url |-> NoUrl, script_data |-> "",
     cookie_name |-> "", cookie_value |-> ""]
SbsdResult(b, u, sd, n, v) ==
    [ok |-> TRUE, base_url |-> b, sbsd_url |-> u, script_data |-> sd,
     cookie_name |-> n, cookie_value |-> v]

\* Mutant of SbsdPick: sbsd_o is looked at first.
SbsdPick_SbsdFirst(bm_so, sbsd_o) ==
    IF sbsd_o # "" THEN [name |-> "sbsd_o", value |-> sbsd_o]
    ELSE IF bm_so # "" THEN [name |-> "bm_so", value |-> bm_so]
    ELSE [name |-> "", value |-> ""]

\* Lines 401 to 410: bm_so if the jar gave one, else sbsd_o, else neither.
SbsdPick(bm_so, sbsd_o) ==
    IF bm_so # "" THEN [name |-> "bm_so", value |-> bm_so]
    ELSE IF sbsd_o # "" THEN [name |-> "sbsd_o", value |-> sbsd_o]
    ELSE [name |-> "", value |-> ""]

\* AkamaiSBSD.fetch_and_extract(website_url, ...) up to the first client.get:
\* clears the session headers and requests the page.
sbsd_fetch_and_extract(url) ==
    /\ wpc = "idle"
    /\ runs < MaxRuns
    /\ runs' = runs + 1
    /\ hdrs' = {}
    /\ website_url' = url
    /\ getLog' = <<url>>
    /\ bresult' = NoSbsdResult
    /\ wpc' = "sbsd_page_get"
    /\ UNCHANGED <<jar, wresp, wlocal, wresult, presult, sbsd_payload>>
    /\ UNCHANGED <<clientVars, pollVars, createVars, postVars, sensorVars, replayVars>>
    /\ UNCHANGED lateVars

\* The target answers the page GET; the session keeps the cookies it sets.
SbsdPageRespond(r) ==
    /\ wpc = "sbsd_page_get"
    /\ wresp' = r
    /\ jar' = StoreCookies(jar, website_url.host, r.cookies)
    /\ wpc' = "sbsd_page_got"
    /\ UNCHANGED <<hdrs, website_url, getLog, wlocal, wresult, runs>>
    /\ UNCHANGED <<clientVars, pollVars, createVars, postVars, extVars>>

\* Lines 359 to 385: the checks on the page response, then the script GET.
SbsdPageHandle ==
    /\ wpc = "sbsd_page_got"
    /\ IF wresp.status # 200 \/ get_sbsd_url(wresp.html, BaseUrl(website_url)) = NoUrl
       THEN /\ bresult' = NoSbsdResult
            /\ wpc' = "idle"
            /\ UNCHANGED getLog
       ELSE /\ getLog' = Append(getLog, get_sbsd_url(wresp.html, BaseUrl(website_url)))
            /\ wpc' = "sbsd_script_get"
            /\ UNCHANGED bresult
    /\ UNCHANGED <<hdrs, jar, website_url, wresp, wlocal, wresult, runs, presult, sbsd_payload>>
    /\ UNCHANGED <<clientVars, pollVars, createVars, postVars, sensorVars, replayVars>>
    /\ UNCHANGED lateVars

\* The host the script GET went to.
ScriptHost == IF Len(getLog) < 2 THEN "" ELSE getLog[2].host

\* The target answers the script GET; the session keeps the cookies it sets.
SbsdScriptRespond(r) ==
    /\ wpc = "sbsd_script_get"
    /\ wresp' = r
    /\ jar' = StoreCookies(jar, ScriptHost, r.cookies)
    /\ wpc' = "sbsd_script_got"
    /\ UNCHANGED <<hdrs, website_url, getLog, wlocal, wresult, runs>>
    /\ UNCHANGED <<clientVars, pollVars, createVars, postVars, extVars>>

\* Lines 393 to 422: the check on the script response, the cookie picked
\* from the session jar, and the result.
SbsdScriptHandle ==
    /\ wpc = "sbsd_script_got"
    /\ \E bm_so \in JarGet(jar, "bm_so"), sbsd_o \in JarGet(jar, "sbsd_o") :
          bresult' = IF wresp.status # 200 \/ SbsdPick(bm_so, sbsd_o).name = ""
                     THEN NoSbsdResult
                     ELSE SbsdResult(BaseUrl(website_url), getLog[2], wresp.text,
                                     SbsdPick(bm_so, sbsd_o).name,
                                     SbsdPick(bm_so, sbsd_o).value)
    /\ wpc' = "idle"
    /\ UNCHANGED <<hdrs, jar, website_url, getLog, wresp, wlocal, wresult, runs>>
    /\ UNCHANGED <<presult, sbsd_payload>>
    /\ UNCHANGED <<clientVars, pollVars, createVars, postVars, sensorVars, replayVars>>
    /\ UNCHANGED lateVars

\* base64: the characters of the alphabet the model uses, with their values;
\* "=" is the pad, "!" a character outside the alphabet.
B64Alphabet == {"Q", "/"}
B64Value(c) == IF c = "Q" THEN 16 ELSE 63
PayloadChars == B64Alphabet \cup {"=", "!"}

\* Every sbsd_payload the model tries.
Payloads == UNION {[1..n -> PayloadChars] : n \in 0..MaxPayloadLen}

\* base64.b64decode(s), which does not validate: a character outside the
\* alphabet is skipped; a pad is skipped too unless it completes a group of
\* four begun by two or three characters, where decoding stops; the input
\* must not end inside a group. q is the place in the group, left the bits
\* not yet put out, pads the pads seen since the last character, out the
\* bytes so far.
RECURSIVE B64Run(_, _, _, _, _)
B64Run(s, q, left, pads, out) ==
    IF s = <<>> THEN [ok |-> q = 0, bytes |-> out]
    ELSE LET c == Head(s)
             v == B64Value(c)
         IN  IF c = "="
             THEN IF q >= 2 /\ q + pads + 1 >= 4
                  THEN [ok |-> TRUE, bytes |-> out]
                  ELSE B64Run(Tail(s), q, left, IF q >= 2 THEN pads + 1 ELSE pads, out)
             ELSE IF c \notin B64Alphabet
             THEN B64Run(Tail(s), q, left, pads, out)
             ELSE CASE q = 0 -> B64Run(Tail(s), 1, v, 0, out)
                    [] q = 1 -> B64Run(Tail(s), 2, v % 16, 0, Append(out, left * 4 + v \div 16))
                    [] q = 2 -> B64Run(Tail(s), 3, v % 4, 0, Append(out, left * 16 + v \div 4))
                    [] q = 3 -> B64Run(Tail(s), 0, 0, 0, Append(out, left * 64 + v))

b64decode(s) == B64Run(s, 0, 0, 0, <<>>)

\* Whether bytes.decode("utf-8") accepts a byte sequence.
RECURSIVE Utf8Valid(_)
Utf8Valid(bs) ==
    LET n == Len(bs)
        Cont(i) == i <= n /\ bs[i] \in 128..191
    IN  IF bs = <<>> THEN TRUE
        ELSE IF bs[1] < 128 THEN Utf8Valid(Tail(bs))
        ELSE IF bs[1] \in 194..223
        THEN Cont(2) /\ Utf8Valid(SubSeq(bs, 3, n))
        ELSE IF bs[1] \in 224..239
        THEN /\ Cont(2) /\ Cont(3)
             /\ bs[1] = 224 => bs[2] >= 160
             /\ bs[1] = 237 => bs[2] <= 159
             /\ Utf8Valid(SubSeq(bs, 4, n))
        ELSE IF bs[1] \in 240..244
        THEN /\ Cont(2) /\ Cont(3) /\ Cont(4)
             /\ bs[1] = 240 => bs[2] >= 144
             /\ bs[1] = 244 => bs[2] <= 143
             /\ Utf8Valid(SubSeq(bs, 5, n))
        ELSE FALSE

\* Line 430: base64.b64decode(sbsd_payload).decode("utf-8"); ok = FALSE where
\* either step raises. The text is kept as its bytes.
DecodePayload(s) ==
    IF b64decode(s).ok /\ Utf8Valid(b64decode(s).bytes)
    THEN [ok |-> TRUE, text |-> b64decode(s).bytes]
    ELSE [ok |-> FALSE, text |-> <<>>]

\* The dict post_sbsd returns; ok = FALSE stands for None, and exc names an
\* exception that left the call.
NoSbsdPosted == [ok |-> FALSE, exc |-> "", cookies |-> EmptyDict]
SbsdPosted(cookies) == [ok |-> TRUE, exc |-> "", cookies |-> cookies]

\* The post_url a caller passes, with or without a query string, and the
\* URL posted to: scheme, netloc and path.
SbsdPostUrl(u, query) ==
    [scheme |-> u.scheme, host |-> u.host, path |-> "/.well-known/sbsd/v1", query |-> query]
StripQuery(u) == Url(u.scheme, u.host, u.path)

SbsdPostResponses(h) ==
    {WebResponse(st, <<>>, "", ck) : st \in WebStatuses, ck \in SbsdCookies(h)}

\* Mutant of post_sbsd: the payload is posted whether it decodes or not.
post_sbsd_PostsAnyway(p, purl, url) ==
    /\ wpc = "idle"
    /\ runs' = runs + 1
    /\ sbsd_payload' = p
    /\ postLog' = Append(postLog, [url |-> StripQuery(purl),
                                   body |-> [body |-> DecodePayload(p).text],
                                   origin |-> BaseUrl(url), referer |-> url])
    /\ presult' = NoSbsdPosted
    /\ wpc' = "sbsd_post"
    /\ UNCHANGED <<hdrs, jar, website_url, getLog, wresp, wlocal, wresult, sresult, bresult>>
    /\ UNCHANGED <<clientVars, pollVars, createVars, postVars, replayVars>>
    /\ UNCHANGED lateVars

\* Mutant of post_sbsd: the decode error leaves the call.
post_sbsd_Raises(p, purl, url) ==
    /\ wpc = "idle"
    /\ runs' = runs + 1
    /\ sbsd_payload' = p
    /\ IF ~DecodePayload(p).ok
       THEN /\ presult' = [NoSbsdPosted EXCEPT !.exc = "DecodeError"]
            /\ UNCHANGED <<postLog, wpc>>
       ELSE /\ postLog' = Append(postLog, [url |-> StripQuery(purl),
                                           body |-> [body |-> DecodePayload(p).text],
                                           origin |-> BaseUrl(url), referer |-> url])
            /\ presult' = NoSbsdPosted
            /\ wpc' = "sbsd_post"
    /\ UNCHANGED <<hdrs, jar, website_url, getLog, wresp, wlocal, wresult, sresult, bresult>>
    /\ UNCHANGED <<clientVars, pollVars, createVars, postVars, replayVars>>
    /\ UNCHANGED lateVars

\* post_sbsd(sbsd_payload, post_url, user_agent, website_url) up to
\* client.post: a payload that does not decode ends the call with None; else
\* the decoded text is posted to the URL without its query string.
post_sbsd(p, purl, url) ==
    /\ wpc = "idle"
    /\ runs' = runs + 1
    /\ sbsd_payload' = p
    /\ IF ~DecodePayload(p).ok
       THEN /\ presult' = NoSbsdPosted
            /\ UNCHANGED <<postLog, wpc>>
       ELSE /\ postLog' = Append(postLog, [url |-> StripQuery(purl),
                                           body |-> [body |-> DecodePayload(p).text],
                                           origin |-> BaseUrl(url), referer |-> url])
            /\ presult' = NoSbsdPosted
            /\ wpc' = "sbsd_post"
    /\ UNCHANGED <<hdrs, jar, website_url, getLog, wresp, wlocal, wresult, sresult, bresult>>
    /\ UNCHANGED <<clientVars, pollVars, createVars, postVars, replayVars>>
    /\ UNCHANGED lateVars

\* The target answers the POST; the session keeps the cookies it sets.
SbsdPostRespond(r) ==
    /\ wpc = "sbsd_post"
    /\ wresp' = r
    /\ jar' = StoreCookies(jar, PostHost, r.cookies)
    /\ wpc' = "sbsd_posted"
    /\ UNCHANGED <<hdrs, website_url, getLog, wlocal, wresult, runs>>
    /\ UNCHANGED <<clientVars, pollVars, createVars, postVars, extVars>>

\* Mutant of SbsdPostHandle: the status of the response is not looked at.
SbsdPostHandle_AnyStatus ==
    /\ wpc = "sbsd_posted"
    /\ \E cookies \in JarDicts(jar) :
          presult' = IF DOMAIN cookies = {}
                     THEN NoSbsdPosted
                     ELSE SbsdPosted(cookies)
    /\ wpc' = "idle"
    /\ UNCHANGED <<hdrs, jar, website_url, getLog, wresp, wlocal, wresult, runs>>
    /\ UNCHANGED <<bresult, sbsd_payload>>
    /\ UNCHANGED <<clientVars, pollVars, createVars, postVars, sensorVars, replayVars>>
    /\ UNCHANGED lateVars

\* Lines 478 to 493: the check on the response, the session's cookies, and
\* the result.
SbsdPostHandle ==
    /\ wpc = "sbsd_posted"
    /\ \E cookies \in JarDicts(jar) :
          presult' = IF wresp.status # 200 \/ DOMAIN cookies = {}
                     THEN NoSbsdPosted
                     ELSE SbsdPosted(cookies)
    /\ wpc' = "idle"
    /\ UNCHANGED <<hdrs, jar, website_url, getLog, wresp, wlocal, wresult, runs>>
    /\ UNCHANGED <<bresult, sbsd_payload>>
    /\ UNCHANGED <<clientVars, pollVars, createVars, postVars, sensorVars, replayVars>>
    /\ UNCHANGED lateVars

-----------------------------------------------------------------------------
(* Two extraction workflows running at once: each is one call of           *)
(* AkamaiWeb.fetch_and_extract on its own thread, either on one shared     *)
(* client or on a client of its own. A step is one request answered or one *)
(* stretch of the method between two requests.                             *)

Workflows == {1, 2}

\* Client.__init__ gives every client instance one session of its own.
\* The client, and with it the session, workflow w works on.
ClientOf_OneSession(w) == 1
ClientOf(w) == IF shared THEN 1 ELSE w

NewSession == [headers |-> {}, cookies |-> EmptyJar]
NewWorkflow ==
    [pc |-> "new", website_url |-> NoUrl, resp |-> NoWebResponse, local |-> NoLocal,
     result |-> NoResult]

\* The cookies of a response to a request of workflow w: the values the
\* target sets say which request they answered.
AnswerTo(w, r) == [r EXCEPT !.cookies = [k \in DOMAIN r.cookies |->
                      IF r.cookies[k] = "" THEN "" ELSE r.cookies[k] \o "#" \o ToString(w)]]

\* The pages and scripts the targets answer the two workflows with.
RaceDocs == {<<>>, <<Tag(TRUE, "/akam/13/pixel_7a", TRUE, TRUE)>>}
RacePages(h) == {r \in PageResponses(h) : r.html \in RaceDocs}
RaceScripts(h) == {r \in ScriptResponses(h) : r.text # ""}

\* fetch_and_extract up to the first client.get, on workflow w's thread.
race_fetch_and_extract(w, url) ==
    /\ wf[w].pc = "new"
    /\ sessions' = [sessions EXCEPT ![ClientOf(w)].headers = {}]
    /\ wf' = [wf EXCEPT ![w].pc = "page_get", ![w].website_url = url]
    /\ UNCHANGED <<shared, nonRaceVars>>

\* The target answers workflow w's page GET; the session of its client keeps
\* the cookies.
RacePageRespond(w, r) ==
    /\ wf[w].pc = "page_get"
    /\ sessions' = [sessions EXCEPT ![ClientOf(w)].cookies =
                       StoreCookies(@, wf[w].website_url.host, AnswerTo(w, r).cookies)]
    /\ wf' = [wf EXCEPT ![w].pc = "page_got", ![w].resp = AnswerTo(w, r)]
    /\ UNCHANGED <<shared, nonRaceVars>>

\* Lines 128 to 159 on workflow w's thread.
RacePageHandle(w) ==
    /\ wf[w].pc = "page_got"
    /\ wf' = IF PageCheck(wf[w].resp, wf[w].website_url) # ""
             THEN [wf EXCEPT ![w].pc = "done", ![w].result = NoResult]
             ELSE [wf EXCEPT ![w].pc = "script_get",
                             ![w].local =
                                [base_url |-> get_akamai_url(wf[w].resp.html, wf[w].website_url).base_url,
                                 akamai_url |-> get_akamai_url(wf[w].resp.html, wf[w].website_url).akamai_url,
                                 abck |-> CookieGet(wf[w].resp.cookies, "_abck")]]
    /\ UNCHANGED sessions
    /\ UNCHANGED <<shared, nonRaceVars>>

\* The target answers workflow w's script GET.
RaceScriptRespond(w, r) ==
    /\ wf[w].pc = "script_get"
    /\ sessions' = [sessions EXCEPT ![ClientOf(w)].cookies =
                       StoreCookies(@, wf[w].local.akamai_url.host, AnswerTo(w, r).cookies)]
    /\ wf' = [wf EXCEPT ![w].pc = "script_got", ![w].resp = AnswerTo(w, r)]
    /\ UNCHANGED <<shared, nonRaceVars>>

\* Lines 161 to 181 on workflow w's thread: bm_sz is read from the session.
RaceScriptHandle(w) ==
    /\ wf[w].pc = "script_got"
    /\ \E bm_sz \in JarGet(sessions[ClientOf(w)].cookies, "bm_sz") :
          wf' = [wf EXCEPT ![w].pc = "done",
                           ![w].result =
                              IF wf[w].resp.status # 200 \/ bm_sz = ""
                              THEN NoResult
                              ELSE WebResult(wf[w].local.base_url, wf[w].local.akamai_url,
                                             wf[w].resp.text, wf[w].local.abck, bm_sz)]
    /\ UNCHANGED sessions
    /\ UNCHANGED <<shared, nonRaceVars>>

-----------------------------------------------------------------------------
(* salamoonder/utils/datadome.py                                           *)
(*                                                                         *)
(* Texts are sequences of characters. An HTML text is a sequence of        *)
(* lexemes: the marker `var dd=`, the closer `</script>`, the punctuation  *)
(* of JSON, strings in single or double quotes, numbers, null, and other   *)
(* text.                                                                   *)

Lex(k, s) == [k |-> k, s |-> s]
Marker == Lex("marker", <<>>)
Closer == Lex("closer", <<>>)
Punct(c) == Lex("punct", <<c>>)
Sq(s) == Lex("sq", s)
Dq(s) == Lex("dq", s)
Num(s) == Lex("num", s)
Null == Lex("null", <<>>)
Other == Lex("text", <<";">>)

\* The first index of lexeme x in s, 0 when s holds none.
Find(s, x) ==
    IF \E i \in 1..Len(s) : s[i] = x
    THEN CHOOSE i \in 1..Len(s) : s[i] = x /\ \A j \in 1..(i - 1) : s[j] # x
    ELSE 0

\* s.split(x)[0]: the text before the first x, all of s when there is none.
SplitFirst(s, x) == IF Find(s, x) = 0 THEN s ELSE SubSeq(s, 1, Find(s, x) - 1)

\* s.split(x)[1]: the text between the first x and the next one (or the
\* end); IndexError (ok = FALSE) when s holds no x.
SplitSecond(s, x) ==
    IF Find(s, x) = 0 THEN [ok |-> FALSE, text |-> <<>>]
    ELSE [ok |-> TRUE, text |-> SplitFirst(SubSeq(s, Find(s, x) + 1, Len(s)), x)]

\* js_object.replace("'", '"'): a string in single quotes becomes one in
\* double quotes; a string in double quotes that holds an apostrophe is cut in
\* two by it, which leaves text JSON does not know.
HasApostrophe(s) == \E i \in 1..Len(s) : s[i] = "'"
ReplaceQuotes(js) ==
    [i \in 1..Len(js) |->
        IF js[i].k = "sq" THEN Dq(js[i].s)
        ELSE IF js[i].k = "dq" /\ HasApostrophe(js[i].s) THEN Other
        ELSE js[i]]

\* Python values as json.loads builds them: the type, str(value) and
\* repr(value); a dict also keeps its items, in insertion order.
JVal(t, v, r) == [t |-> t, v |-> v, r |-> r, items |-> <<>>]
JNone == JVal("NoneType", <<"N", "o", "n", "e">>, <<"N", "o", "n", "e">>)
JStr(s) == JVal("str", s, <<"'">> \o s \o <<"'">>)
JInt(s) == JVal("int", s, s)

\* ", ".join(texts)
RECURSIVE JoinComma(_)
JoinComma(ts) ==
    IF ts = <<>> THEN <<>>
    ELSE IF Len(ts) = 1 THEN ts[1]
    ELSE ts[1] \o <<",", " ">> \o JoinComma(Tail(ts))

JList(vals) ==
    LET r == <<"[">> \o JoinComma([i \in 1..Len(vals) |-> vals[i].r]) \o <<"]">>
    IN  JVal("list", r, r)

\* dict: items is a sequence of <<key, value>> with distinct keys.
JDict(items) ==
    LET r == <<"{">> \o JoinComma([i \in 1..Len(items) |->
                        JStr(items[i][1]).r \o <<":", " ">> \o items[i][2].r]) \o <<"}">>
    IN  [t |-> "dict", v |-> r, r |-> r, items |-> items]

\* d[k] = v on a dict's items: a key already there keeps its place and takes
\* the new value.
SetItem(items, k, v) ==
    IF \E i \in 1..Len(items) : items[i][1] = k
    THEN [i \in 1..Len(items) |-> IF items[i][1] = k THEN <<k, v>> ELSE items[i]]
    ELSE Append(items, <<k, v>>)

\* parsed.get(k) on a dict.
DictGet(d, k) ==
    IF \E i \in 1..Len(d.items) : d.items[i][1] = k
    THEN (d.items[CHOOSE i \in 1..Len(d.items) : d.items[i][1] = k])[2]
    ELSE JNone

\* json.loads on a text of lexemes: a recursive-descent parse of one value.
\* Each operator returns whether it parsed, the value, and the text left.
ParseFail == [ok |-> FALSE, val |-> JNone, rest |-> <<>>]
Parsed(val, rest) == [ok |-> TRUE, val |-> val, rest |-> rest]

RECURSIVE ParseValue(_), ParseMembers(_, _, _), ParseElements(_, _, _)

ParseValue(s) ==
    IF s = <<>> THEN ParseFail
    ELSE CASE s[1].k = "dq" -> Parsed(JStr(s[1].s), Tail(s))
           [] s[1].k = "num" -> Parsed(JInt(s[1].s), Tail(s))
           [] s[1].k = "null" -> Parsed(JNone, Tail(s))
           [] s[1] = Punct("{") -> ParseMembers(Tail(s), <<>>, TRUE)
           [] s[1] = Punct("[") -> ParseElements(Tail(s), <<>>, TRUE)
           [] OTHER -> ParseFail

\* The members of an object after `{` (first) or after a comma.
ParseMembers(s, items, first) ==
    IF s = <<>> THEN ParseFail
    ELSE IF first /\ s[1] = Punct("}") THEN Parsed(JDict(items), Tail(s))
    ELSE IF Len(s) < 3 \/ s[1].k # "dq" \/ s[2] # Punct(":") THEN ParseFail
    ELSE LET v == ParseValue(SubSeq(s, 3, Len(s)))
         IN  IF ~v.ok \/ v.rest = <<>> THEN ParseFail
             ELSE IF v.rest[1] = Punct("}")
                  THEN Parsed(JDict(SetItem(items, s[1].s, v.val)), Tail(v.rest))
             ELSE IF v.rest[1] = Punct(",")
                  THEN ParseMembers(Tail(v.rest), SetItem(items, s[1].s, v.val), FALSE)
             ELSE ParseFail

\* The elements of an array after `[` (first) or after a comma.
ParseElements(s, vals, first) ==
    IF s = <<>> THEN ParseFail
    ELSE IF first /\ s[1] = Punct("]") THEN Parsed(JList(vals), Tail(s))
    ELSE LET v == ParseValue(s)
         IN  IF ~v.ok \/ v.rest = <<>> THEN ParseFail
             ELSE IF v.rest[1] = Punct("]")
                  THEN Parsed(JList(Append(vals, v.val)), Tail(v.rest))
             ELSE IF v.rest[1] = Punct(",")
                  THEN ParseElements(Tail(v.rest), Append(vals, v.val), FALSE)
             ELSE ParseFail

\* json.loads(text): one value and nothing after it, else JSONDecodeError.
json_loads(text) ==
    IF ParseValue(text).ok /\ ParseValue(text).rest = <<>>
    THEN [ok |-> TRUE, val |-> ParseValue(text).val]
    ELSE [ok |-> FALSE, val |-> JNone]

\* Lines 51 to 58 (and 103 to 110): the try block. ok = FALSE is the
\* RuntimeError raised on any exception inside it.
ParseDd(html) ==
    IF ~SplitSecond(html, Marker).ok THEN [ok |-> FALSE, val |-> JNone]
    ELSE json_loads(ReplaceQuotes(SplitFirst(SplitSecond(html, Marker).text, Closer)))

\* urllib.parse.quote_plus on the characters of the model: letters and
\* digits stay, a space becomes "+", the rest is percent-encoded.
QuoteChar(c) ==
    CASE c = " " -> "+"
      [] c = "/" -> "%2F"
      [] c = "'" -> "%27"
      [] c = "[" -> "%5B"
      [] c = "]" -> "%5D"
      [] c = "{" -> "%7B"
      [] c = "}" -> "%7D"
      [] c = ":" -> "%3A"
      [] c = "," -> "%2C"
      [] c = ";" -> "%3B"
      [] OTHER -> c

RECURSIVE quote_plus(_)
quote_plus(s) == IF s = <<>> THEN "" ELSE QuoteChar(Head(s)) \o quote_plus(Tail(s))

\* urlencode(params) for a dict given as a sequence of <<name, text>>, where
\* text is str(value): name=value pairs in the order of the dict, joined by &.
RECURSIVE urlencode(_)
urlencode(params) ==
    IF params = <<>> THEN ""
    ELSE params[1][1] \o "=" \o quote_plus(params[1][2])
         \o (IF Len(params) = 1 THEN "" ELSE "&" \o urlencode(Tail(params)))

\* What a parse function does: returns a URL, returns None, or raises.
DdUrl(u) == [kind |-> "return", exc |-> "", url |-> u]
DdNone == [kind |-> "None", exc |-> "", url |-> ""]
DdRaise(e) == [kind |-> "raise", exc |-> e, url |-> ""]
DdIdle == [kind |-> "", exc |-> "", url |-> ""]

\* Mutant of parse_slider_url: a blocked IP (t = "bv") is raised as an error.
parse_slider_url_BlockedRaises(h, cookie, ref) ==
    IF ~ParseDd(h).ok THEN DdRaise("RuntimeError")
    ELSE LET parsed == ParseDd(h).val
         IN  IF parsed.t # "dict" THEN DdRaise("AttributeError")
             ELSE IF DictGet(parsed, <<"t">>) = JStr(<<"b", "v">>) THEN DdRaise("RuntimeError")
             ELSE DdUrl("https://geo.captcha-delivery.com/captcha/?" \o urlencode(
                     <<<<"initialCid", DictGet(parsed, <<"c", "i", "d">>).v>>,
                       <<"hash", DictGet(parsed, <<"h", "s", "h">>).v>>,
                       <<"cid", cookie>>,
                       <<"t", DictGet(parsed, <<"t">>).v>>,
                       <<"referer", ref>>,
                       <<"s", DictGet(parsed, <<"s">>).v>>,
                       <<"e", DictGet(parsed, <<"e">>).v>>,
                       <<"dm", <<"c", "d">>>>>>))

\* Datadome.parse_slider_url(html, datadome_cookie, referer).
parse_slider_url(h, cookie, ref) ==
    IF ~ParseDd(h).ok THEN DdRaise("RuntimeError")
    ELSE LET parsed == ParseDd(h).val
         IN  IF parsed.t # "dict" THEN DdRaise("AttributeError")
             ELSE IF DictGet(parsed, <<"t">>) = JStr(<<"b", "v">>) THEN DdNone
             ELSE DdUrl("https://geo.captcha-delivery.com/captcha/?" \o urlencode(
                     <<<<"initialCid", DictGet(parsed, <<"c", "i", "d">>).v>>,
                       <<"hash", DictGet(parsed, <<"h", "s", "h">>).v>>,
                       <<"cid", cookie>>,
                       <<"t", DictGet(parsed, <<"t">>).v>>,
                       <<"referer", ref>>,
                       <<"s", DictGet(parsed, <<"s">>).v>>,
                       <<"e", DictGet(parsed, <<"e">>).v>>,
                       <<"dm", <<"c", "d">>>>>>))

\* Mutant of parse_interstitial_url: `b` is emitted before `e`.
parse_interstitial_url_Reordered(h, cookie, ref) ==
    IF ~ParseDd(h).ok THEN DdRaise("RuntimeError")
    ELSE LET parsed == ParseDd(h).val
         IN  IF parsed.t # "dict" THEN DdRaise("AttributeError")
             ELSE DdUrl("https://geo.captcha-delivery.com/interstitial/?" \o urlencode(
                     <<<<"initialCid", DictGet(parsed, <<"c", "i", "d">>).v>>,
                       <<"hash", DictGet(parsed, <<"h", "s", "h">>).v>>,
                       <<"cid", cookie>>,
                       <<"referer", ref>>,
                       <<"s", DictGet(parsed, <<"s">>).v>>,
                       <<"b", DictGet(parsed, <<"b">>).v>>,
                       <<"e", DictGet(parsed, <<"e">>).v>>,
                       <<"dm", <<"c", "d">>>>>>))

\* Datadome.parse_interstitial_url(html, datadome_cookie, referer).
parse_interstitial_url(h, cookie, ref) ==
    IF ~ParseDd(h).ok THEN DdRaise("RuntimeError")
    ELSE LET parsed == ParseDd(h).val
         IN  IF parsed.t # "dict" THEN DdRaise("AttributeError")
             ELSE DdUrl("https://geo.captcha-delivery.com/interstitial/?" \o urlencode(
                     <<<<"initialCid", DictGet(parsed, <<"c", "i", "d">>).v>>,
                       <<"hash", DictGet(parsed, <<"h", "s", "h">>).v>>,
                       <<"cid", cookie>>,
                       <<"referer", ref>>,
                       <<"s", DictGet(parsed, <<"s">>).v>>,
                       <<"e", DictGet(parsed, <<"e">>).v>>,
                       <<"b", DictGet(parsed, <<"b">>).v>>,
                       <<"dm", <<"c", "d">>>>>>))

\* The HTML texts given to the parse functions. A `dd` object of the model
\* has at most MaxFields of the fields below, each with one of the values.
DdFields == <<<<"c", "i", "d">>, <<"h", "s", "h">>, <<"t">>, <<"s">>, <<"e">>, <<"b">>>>
\* The place of the field `t` among them.
TField == CHOOSE i \in DOMAIN DdFields : DdFields[i] = <<"t">>

\* Values as the page writes them: a string, a number, null, a list.
Src(t, s) == [t |-> t, s |-> s]
DdValues ==
    {Src("str", <<"b", "v">>), Src("str", <<"a", " ", "b">>), Src("int", <<"1">>),
     Src("null", <<>>), Src("list", <<"b", "v">>)}

DdObjects ==
    UNION {[ks -> DdValues] : ks \in {x \in SUBSET (1..Len(DdFields)) : Cardinality(x) <= MaxFields}}

Quoted(q, s) == IF q = "sq" THEN Sq(s) ELSE Dq(s)

\* The lexemes of a value, its strings in quotes of kind q.
RenderValue(v, q) ==
    CASE v.t = "str" -> <<Quoted(q, v.s)>>
      [] v.t = "int" -> <<Num(v.s)>>
      [] v.t = "null" -> <<Null>>
      [] v.t = "list" -> <<Punct("["), Quoted(q, v.s), Punct("]")>>

\* The lexemes of the fields i..6 of object f, separated by commas.
RECURSIVE RenderFields(_, _, _, _)
RenderFields(f, q, i, first) ==
    IF i > Len(DdFields) THEN <<>>
    ELSE IF i \notin DOMAIN f THEN RenderFields(f, q, i + 1, first)
    ELSE (IF first THEN <<>> ELSE <<Punct(",")>>)
         \o <<Quoted(q, DdFields[i]), Punct(":")>> \o RenderValue(f[i], q)
         \o RenderFields(f, q, i + 1, FALSE)

Render(f, q) == <<Punct("{")>> \o RenderFields(f, q, 1, TRUE) \o <<Punct("}")>>

\* An object that writes `t` twice, "bv" first: the later one counts.
RenderTwice(f, q) ==
    <<Punct("{"), Quoted(q, DdFields[TField]), Punct(":"), Quoted(q, <<"b", "v">>), Punct(",")>>
    \o RenderFields(f, q, 1, TRUE) \o <<Punct("}")>>

\* A text after the marker, with what it is: an object (and which), a JSON
\* value that is no object, or a text that does not parse once its single
\* quotes are double quotes.
Body(label, f, text) == [label |-> label, obj |-> f, text |-> text]
NoObject == [i \in {} |-> Src("null", <<>>)]

ObjectBodies ==
    {Body("object", f, Render(f, q)) : f \in DdObjects, q \in {"sq", "dq"}}
    \cup {Body("object", f, RenderTwice(f, q)) :
             f \in {g \in DdObjects : TField \in DOMAIN g}, q \in {"sq", "dq"}}

NonObjectBodies ==
    {Body("nonobject", NoObject, text) :
        text \in {<<Punct("["), Punct("]")>>, <<Num(<<"1">>)>>, <<Null>>, <<Sq(<<"b", "v">>)>>}}

GarbageBodies ==
    {Body("garbage", NoObject, text) :
        text \in {<<>>,
                  <<Punct("{")>>,
                  <<Punct("{"), Sq(<<"t">>), Sq(<<"b", "v">>), Punct("}")>>,
                  <<Punct("{"), Sq(<<"t">>), Punct(":"), Sq(<<"b", "v">>), Punct(","), Punct("}")>>,
                  <<Punct("{"), Num(<<"1">>), Punct(":"), Sq(<<"b", "v">>), Punct("}")>>,
                  <<Punct("{"), Dq(<<"t">>), Punct(":"), Dq(<<"a", "'", "b">>), Punct("}")>>,
                  <<Punct("{"), Sq(<<"t">>), Punct(":"), Sq(<<"a", " ", "b">>), Punct("}"), Other>>}}

\* The bodies that are also put into the rarer pages.
SmallBodies ==
    {b \in ObjectBodies : Cardinality(DOMAIN b.obj) <= 1} \cup NonObjectBodies \cup GarbageBodies

BlockedBody == <<Punct("{"), Sq(<<"t">>), Punct(":"), Sq(<<"b", "v">>), Punct("}")>>

\* A page: its lexemes, and what the text between the first marker and the
\* next closer is (label, obj). Pages with the marker and the closer, with
\* no closer, with no marker, with a second script after the closer, and
\* with a second marker before the closer.
Page(label, f, text) == [label |-> label, obj |-> f, html |-> text]
DdPages ==
    {Page(b.label, b.obj, <<Marker>> \o b.text \o <<Closer>>) : b \in ObjectBodies \cup SmallBodies}
    \cup {Page(b.label, b.obj, <<Marker>> \o b.text) : b \in ObjectBodies \cup SmallBodies}
    \cup {Page("nomarker", NoObject, b.text \o <<Closer>>) : b \in SmallBodies}
    \cup {Page(b.label, b.obj, <<Other, Marker>> \o b.text \o <<Closer, Other, Marker>>
                               \o BlockedBody \o <<Closer>>) : b \in SmallBodies}
    \cup {Page("garbage", NoObject, <<Marker>> \o b.text \o <<Marker>> \o BlockedBody \o <<Closer>>) :
             b \in SmallBodies}

DdCookies == {<<"D">>}
Referers == {<<"/", "x">>}

\* A call of parse_slider_url on the page.
ParseSlider ==
    /\ dd_call' = "parse_slider_url"
    /\ dd_out' = parse_slider_url(dd_page.html, datadome_cookie, referer)
    /\ UNCHANGED <<dd_page, datadome_cookie, referer>>
    /\ UNCHANGED nonDdVars

\* A call of parse_interstitial_url on the page.
ParseInterstitial ==
    /\ dd_call' = "parse_interstitial_url"
    /\ dd_out' = parse_interstitial_url(dd_page.html, datadome_cookie, referer)
    /\ UNCHANGED <<dd_page, datadome_cookie, referer>>
    /\ UNCHANGED nonDdVars

-----------------------------------------------------------------------------
(* salamoonder/utils/akamai.py: _extract_sec_ch_ua of both extractors      *)
(*                                                                         *)
(* A user agent is a sequence of pieces: the text `Chrome/`, the text      *)
(* `chrome/`, digits and dots.                                             *)

UaPieces == {"Chrome/", "chrome/", "1", "4", "."}
IsDigit(c) == c \in {"1", "4"}
UserAgents == UNION {[1..n -> UaPieces] : n \in 0..MaxUaLen}

\* The digits \d+ takes from position i on: as many as there are.
RECURSIVE DigitRun(_, _)
DigitRun(ua, i) ==
    IF i <= Len(ua) /\ IsDigit(ua[i]) THEN ua[i] \o DigitRun(ua, i + 1) ELSE ""

\* re.search(r'Chrome/(\d+)', user_agent) tried from position i on: group 1
\* of the leftmost match, "" when nothing matches.
RECURSIVE ChromeSearch(_, _)
ChromeSearch(ua, i) ==
    IF i > Len(ua) THEN ""
    ELSE IF ua[i] = "Chrome/" /\ DigitRun(ua, i + 1) # "" THEN DigitRun(ua, i + 1)
    ELSE ChromeSearch(ua, i + 1)

SecChUa(version) ==
    "\"Chromium\";v=\"" \o version \o "\", \"Google Chrome\";v=\"" \o version
    \o "\", \"Not?A_Brand\";v=\"99\""

\* AkamaiWeb._extract_sec_ch_ua(user_agent), lines 30 to 44.
extract_sec_ch_ua(ua) ==
    IF ChromeSearch(ua, 1) # ""
    THEN SecChUa(ChromeSearch(ua, 1))
    ELSE "\"Chromium\";v=\"122\", \"Google Chrome\";v=\"122\", \"Not?A_Brand\";v=\"99\""

\* Mutant of sbsd_extract_sec_ch_ua: the version is the digit after the
\* first `Chrome/`, whatever follows it.
sbsd_extract_sec_ch_ua_FirstToken(ua) ==
    IF \E i \in 1..Len(ua) : ua[i] = "Chrome/"
    THEN LET i == CHOOSE i \in 1..Len(ua) : ua[i] = "Chrome/" /\ \A j \in 1..(i - 1) : ua[j] # "Chrome/"
         IN  IF DigitRun(ua, i + 1) # ""
             THEN SecChUa(DigitRun(ua, i + 1))
             ELSE "\"Chromium\";v=\"122\", \"Google Chrome\";v=\"122\", \"Not?A_Brand\";v=\"99\""
    ELSE "\"Chromium\";v=\"122\", \"Google Chrome\";v=\"122\", \"Not?A_Brand\";v=\"99\""

\* AkamaiSBSD._extract_sec_ch_ua(user_agent), lines 300 to 314.
sbsd_extract_sec_ch_ua(ua) ==
    IF ChromeSearch(ua, 1) # ""
    THEN SecChUa(ChromeSearch(ua, 1))
    ELSE "\"Chromium\";v=\"122\", \"Google Chrome\";v=\"122\", \"Not?A_Brand\";v=\"99\""

\* Line 107: AkamaiWeb.fetch_and_extract derives its sec-ch-ua header.
WebSecChUa ==
    /\ web_sec_ch_ua' = extract_sec_ch_ua(user_agent)
    /\ UNCHANGED <<user_agent, sbsd_sec_ch_ua>>
    /\ UNCHANGED nonUaVars

\* Line 333: AkamaiSBSD.fetch_and_extract derives its sec-ch-ua header.
SbsdSecChUa ==
    /\ sbsd_sec_ch_ua' = sbsd_extract_sec_ch_ua(user_agent)
    /\ UNCHANGED <<user_agent, web_sec_ch_ua>>
    /\ UNCHANGED nonUaVars

-----------------------------------------------------------------------------
(* The specifications.                                                     *)

\* A client at rest whose key is one of keys: nothing sent, no call running.
InitClient(keys) ==
    /\ api_key \in keys
    /\ pc = "idle"
    /\ net = {}
    /\ sentLog = <<>>
    /\ resp = NoResponse
    /\ outcome = NoOutcome

InitPollVars ==
    /\ task_id = None
    /\ interval = 0
    /\ attempts = 0
    /\ sleepLog = <<>>
    /\ pendingSeen = 0

InitCreateVars ==
    /\ task_type = ""
    /\ kwargs = EmptyDict

InitSensorVars ==
    /\ sresult = NoSensorResult
    /\ postLog = <<>>

\* The example script is not running.
InitReplayVars ==
    /\ rpc = "off"
    /\ round = 0
    /\ current_abck = ""
    /\ current_bmsz = ""
    /\ RespData = ""
    /\ taskLog = <<>>

InitSbsdVars ==
    /\ bresult = NoSbsdResult
    /\ presult = NoSbsdPosted
    /\ sbsd_payload = <<>>

\* No workflow is running.
InitRaceVars ==
    /\ shared = FALSE
    /\ sessions = [c \in Workflows |-> NewSession]
    /\ wf = [w \in Workflows |-> NewWorkflow]

\* No parse function has been called.
InitDdVars ==
    /\ dd_page = Page("nomarker", NoObject, <<>>)
    /\ datadome_cookie = <<>>
    /\ referer = <<>>
    /\ dd_call = ""
    /\ dd_out = DdIdle

\* No header has been derived.
InitUaVars ==
    /\ user_agent = <<>>
    /\ web_sec_ch_ua = ""
    /\ sbsd_sec_ch_ua = ""

InitLateVars == InitRaceVars /\ InitDdVars /\ InitUaVars

InitExtVars == InitSensorVars /\ InitReplayVars /\ InitSbsdVars /\ InitLateVars

InitWebVars ==
    /\ jar = EmptyJar
    /\ wpc = "idle"
    /\ website_url = NoUrl
    /\ getLog = <<>>
    /\ wresp = NoWebResponse
    /\ wlocal = NoLocal
    /\ wresult = NoResult
    /\ runs = 0

\* A constructed client's key passed the guard of __init__, and may have been
\* assigned anything since.
InitPoll ==
    /\ InitClient(Keys)
    /\ InitPollVars
    /\ InitCreateVars
    /\ ctor = [state |-> "ok", given |-> <<"k">>]
    /\ payload = EmptyDict
    /\ hdrs = {}
    /\ InitWebVars
    /\ InitExtVars

NextPoll ==
    \/ \E tid \in TaskIds, iv \in Intervals : getTaskResult(tid, iv)
    \/ Poll
    \/ \E r \in PollResponses : PollRespond(r)
    \/ PollHandle
    \/ Sleep

SpecPoll == InitPoll /\ [][NextPoll]_vars

\* The calling thread runs on: a step of getTaskResult that can be taken is
\* taken. Nothing makes the service answer.
SpecPollFair == SpecPoll /\ WF_vars(Poll) /\ WF_vars(PollHandle) /\ WF_vars(Sleep)

InitCreate ==
    /\ InitClient(CreateKeys)
    /\ InitPollVars
    /\ InitCreateVars
    /\ ctor = [state |-> "ok", given |-> <<"k">>]
    /\ payload = EmptyDict
    /\ hdrs = {}
    /\ InitWebVars
    /\ InitExtVars

NextCreate ==
    \/ \E tt \in TaskTypes : \E kw \in KwargsOf(tt) : createTask(tt, kw)
    \/ \E r \in CreateResponses : CreateRespond(r)
    \/ CreateHandle

SpecCreate == InitCreate /\ [][NextCreate]_vars

InitPost ==
    /\ InitClient({<<>>})
    /\ InitPollVars
    /\ InitCreateVars
    /\ ctor = NoClient
    /\ payload = EmptyDict
    /\ hdrs = {}
    /\ InitWebVars
    /\ InitExtVars

NextPost ==
    \/ \E key \in Keys : ClientInit(key)
    \/ \E key \in Keys : SetApiKey(key)
    \/ \E c \in PostCalls : PostCall(c)
    \/ \E r \in PostResponses : PostRespond(r)
    \/ PostHandle

SpecPost == InitPost /\ [][NextPost]_vars

InitWeb ==
    /\ InitClient({<<"k">>})
    /\ InitPollVars
    /\ InitCreateVars
    /\ ctor = [state |-> "ok", given |-> <<"k">>]
    /\ payload = EmptyDict
    /\ hdrs \in SUBSET SessionHeaders
    /\ InitWebVars
    /\ InitExtVars

NextWeb ==
    \/ \E url \in WebsiteUrls : fetch_and_extract(url)
    \/ \E r \in PageResponses(website_url.host) : PageRespond(r)
    \/ PageHandle
    \/ \E r \in ScriptResponses(wlocal.akamai_url.host) : ScriptRespond(r)
    \/ ScriptHandle

SpecWeb == InitWeb /\ [][NextWeb]_vars

\* The jars a client may hold when post_sensor is called: a fresh session's,
\* and the cookies an extraction against either target has left.
FullCookies(h) == [k \in {"_abck", "bm_sz"} |-> k \o "@" \o h]
SensorJars == {EmptyJar} \cup {StoreCookies(EmptyJar, h, FullCookies(h)) : h \in Hosts}

InitSensor ==
    /\ InitClient({<<"k">>})
    /\ InitPollVars
    /\ InitCreateVars
    /\ ctor = [state |-> "ok", given |-> <<"k">>]
    /\ payload = EmptyDict
    /\ hdrs = {}
    /\ jar \in SensorJars
    /\ wpc = "idle"
    /\ website_url = NoUrl
    /\ getLog = <<>>
    /\ wresp = NoWebResponse
    /\ wlocal = NoLocal
    /\ wresult = NoResult
    /\ runs = 0
    /\ InitExtVars

NextSensor ==
    \/ /\ runs < MaxRuns
       /\ \E url \in WebsiteUrls, sd \in SensorData : post_sensor(AkamaiUrlOf(url), sd, url)
    \/ \E r \in SensorResponses(PostHost) : SensorRespond(r)
    \/ SensorHandle

SpecSensor == InitSensor /\ [][NextSensor]_vars

\* The script starts on a client it has just constructed.
InitReplay ==
    /\ InitClient({<<"k">>})
    /\ InitPollVars
    /\ InitCreateVars
    /\ ctor = [state |-> "ok", given |-> <<"k">>]
    /\ payload = EmptyDict
    /\ hdrs = {}
    /\ InitWebVars
    /\ InitSensorVars
    /\ InitSbsdVars
    /\ InitLateVars
    /\ rpc = "fetch"
    /\ round = 0
    /\ current_abck = ""
    /\ current_bmsz = ""
    /\ RespData = ""
    /\ taskLog = <<>>

NextReplay ==
    \/ ReplayFetch
    \/ \E r \in PageResponses(website_url.host) : PageRespond(r)
    \/ PageHandle
    \/ \E r \in ScriptResponses(wlocal.akamai_url.host) : ScriptRespond(r)
    \/ ScriptHandle
    \/ ReplayData
    \/ \E made \in BOOLEAN : ReplayCreate(made)
    \/ \E sol \in ReplaySolutions(round) : ReplayPoll(sol)
    \/ ReplayPollRaises
    \/ ReplayPost
    \/ \E r \in SensorResponses(PostHost) : SensorRespond(r)
    \/ SensorHandle
    \/ ReplayCookie

SpecReplay == InitReplay /\ [][NextReplay]_vars

InitSbsd ==
    /\ InitClient({<<"k">>})
    /\ InitPollVars
    /\ InitCreateVars
    /\ ctor = [state |-> "ok", given |-> <<"k">>]
    /\ payload = EmptyDict
    /\ hdrs \in SUBSET SessionHeaders
    /\ InitWebVars
    /\ InitExtVars

NextSbsd ==
    \/ \E url \in WebsiteUrls : sbsd_fetch_and_extract(url)
    \/ \E r \in SbsdPageResponses(website_url.host) : SbsdPageRespond(r)
    \/ SbsdPageHandle
    \/ \E r \in SbsdScriptResponses(ScriptHost) : SbsdScriptRespond(r)
    \/ SbsdScriptHandle

SpecSbsd == InitSbsd /\ [][NextSbsd]_vars

\* The jars a client may hold when post_sbsd is called: a fresh session's,
\* and the cookie an extraction against either target has left.
SbsdJars ==
    {EmptyJar} \cup {StoreCookies(EmptyJar, h, [k \in {"bm_so"} |-> k \o "@" \o h]) : h \in Hosts}

InitSbsdPost ==
    /\ InitClient({<<"k">>})
    /\ InitPollVars
    /\ InitCreateVars
    /\ ctor = [state |-> "ok", given |-> <<"k">>]
    /\ payload = EmptyDict
    /\ hdrs \in SUBSET SessionHeaders
    /\ jar \in SbsdJars
    /\ wpc = "idle"
    /\ website_url = NoUrl
    /\ getLog = <<>>
    /\ wresp = NoWebResponse
    /\ wlocal = NoLocal
    /\ wresult = NoResult
    /\ runs = 0
    /\ InitExtVars

\* One call of post_sbsd.
NextSbsdPost ==
    \/ /\ runs = 0
       /\ \E p \in Payloads, url \in WebsiteUrls, query \in {"", "?v=1"} :
             post_sbsd(p, SbsdPostUrl(url, query), url)
    \/ \E r \in SbsdPostResponses(PostHost) : SbsdPostRespond(r)
    \/ SbsdPostHandle

SpecSbsdPost == InitSbsdPost /\ [][NextSbsdPost]_vars

\* Two workflows about to start, on one client or on two.
InitRace ==
    /\ InitClient({<<"k">>})
    /\ InitPollVars
    /\ InitCreateVars
    /\ ctor = [state |-> "ok", given |-> <<"k">>]
    /\ payload = EmptyDict
    /\ hdrs = {}
    /\ InitWebVars
    /\ InitSensorVars /\ InitReplayVars /\ InitSbsdVars /\ InitDdVars /\ InitUaVars
    /\ shared \in BOOLEAN
    /\ sessions = [c \in Workflows |-> NewSession]
    /\ wf = [w \in Workflows |-> NewWorkflow]

NextRace ==
    \/ \E w \in Workflows, url \in WebsiteUrls : race_fetch_and_extract(w, url)
    \/ \E w \in Workflows : \E r \in RacePages(wf[w].website_url.host) : RacePageRespond(w, r)
    \/ \E w \in Workflows : RacePageHandle(w)
    \/ \E w \in Workflows : \E r \in RaceScripts(wf[w].local.akamai_url.host) : RaceScriptRespond(w, r)
    \/ \E w \in Workflows : RaceScriptHandle(w)

SpecRace == InitRace /\ [][NextRace]_vars

\* A client on which one call of one operation is made: createTask, either
\* fetch_and_extract, post_sensor or post_sbsd.
NotCalled == pc = "idle" /\ wpc = "idle" /\ runs = 0

InitCalls ==
    /\ InitClient(CreateKeys)
    /\ InitPollVars
    /\ InitCreateVars
    /\ ctor = [state |-> "ok", given |-> <<"k">>]
    /\ payload = EmptyDict
    /\ hdrs = {}
    /\ jar \in SensorJars \cup SbsdJars
    /\ wpc = "idle"
    /\ website_url = NoUrl
    /\ getLog = <<>>
    /\ wresp = NoWebResponse
    /\ wlocal = NoLocal
    /\ wresult = NoResult
    /\ runs = 0
    /\ InitExtVars

NextCalls ==
    \/ NotCalled /\ \E tt \in TaskTypes : \E kw \in KwargsOf(tt) : createTask(tt, kw)
    \/ \E r \in CreateResponses : CreateRespond(r)
    \/ CreateHandle
    \/ NotCalled /\ \E url \in WebsiteUrls : fetch_and_extract(url)
    \/ \E r \in PageResponses(website_url.host) : PageRespond(r)
    \/ PageHandle
    \/ \E r \in ScriptResponses(wlocal.akamai_url.host) : ScriptRespond(r)
    \/ ScriptHandle
    \/ NotCalled /\ \E url \in WebsiteUrls : sbsd_fetch_and_extract(url)
    \/ \E r \in SbsdPageResponses(website_url.host) : SbsdPageRespond(r)
    \/ SbsdPageHandle
    \/ \E r \in SbsdScriptResponses(ScriptHost) : SbsdScriptRespond(r)
    \/ SbsdScriptHandle
    \/ NotCalled /\ \E url \in WebsiteUrls, sd \in SensorData :
                       post_sensor(AkamaiUrlOf(url), sd, url)
    \/ \E r \in SensorResponses(PostHost) : SensorRespond(r)
    \/ SensorHandle
    \/ NotCalled /\ \E p \in Payloads, url \in WebsiteUrls, query \in {"", "?v=1"} :
                       post_sbsd(p, SbsdPostUrl(url, query), url)
    \/ \E r \in SbsdPostResponses(PostHost) : SbsdPostRespond(r)
    \/ SbsdPostHandle

SpecCalls == InitCalls /\ [][NextCalls]_vars

\* The parse functions of a Datadome object, on every page of the model.
InitDd ==
    /\ InitClient({<<"k">>})
    /\ InitPollVars
    /\ InitCreateVars
    /\ ctor = [state |-> "ok", given |-> <<"k">>]
    /\ payload = EmptyDict
    /\ hdrs = {}
    /\ InitWebVars
    /\ InitSensorVars /\ InitReplayVars /\ InitSbsdVars /\ InitRaceVars /\ InitUaVars
    /\ dd_page \in DdPages
    /\ datadome_cookie \in DdCookies
    /\ referer \in Referers
    /\ dd_call = ""
    /\ dd_out = DdIdle

NextDd ==
    \/ ParseSlider
    \/ ParseInterstitial

SpecDd == InitDd /\ [][NextDd]_vars

\* The two helpers on every user agent of the model.
InitUa ==
    /\ InitClient({<<"k">>})
    /\ InitPollVars
    /\ InitCreateVars
    /\ ctor = [state |-> "ok", given |-> <<"k">>]
    /\ payload = EmptyDict
    /\ hdrs = {}
    /\ InitWebVars
    /\ InitSensorVars /\ InitReplayVars /\ InitSbsdVars /\ InitRaceVars /\ InitDdVars
    /\ user_agent \in UserAgents
    /\ web_sec_ch_ua = ""
    /\ sbsd_sec_ch_ua = ""

NextUa ==
    \/ WebSecChUa
    \/ SbsdSecChUa

SpecUa == InitUa /\ [][NextUa]_vars

\* Calls of either extractor's fetch_and_extract, one after another on one
\* client.
NextExtract ==
    \/ \E url \in WebsiteUrls : fetch_and_extract(url)
    \/ \E r \in PageResponses(website_url.host) : PageRespond(r)
    \/ PageHandle
    \/ \E r \in ScriptResponses(wlocal.akamai_url.host) : ScriptRespond(r)
    \/ ScriptHandle
    \/ \E url \in WebsiteUrls : sbsd_fetch_and_extract(url)
    \/ \E r \in SbsdPageResponses(website_url.host) : SbsdPageRespond(r)
    \/ SbsdPageHandle
    \/ \E r \in SbsdScriptResponses(ScriptHost) : SbsdScriptRespond(r)
    \/ SbsdScriptHandle

SpecExtract == InitWeb /\ [][NextExtract]_vars

-----------------------------------------------------------------------------
(* The claims about Tasks.getTaskResult, under SpecPoll.                   *)

\* The status the call reads from a response _post hands back.
StatusOf(r) == Get(r.data, "status")
Handed(r) == r.isJson /\ r.code < 400

\* C1: on the first response whose status is "ready" getTaskResult returns
\* that response's `solution`: the step that handles it returns, sends nothing
\* and sleeps no more, whatever number of PENDING responses came before, and
\* nothing is sent or slept after the return.
C1_ReadyReturnsSolution ==
    /\ [][(pc = "received" /\ Handed(resp) /\ StatusOf(resp) = Str("ready"))
            => /\ pc' = "returned"
               /\ outcome' = Returned(Get(resp.data, "solution"))
               /\ sentLog' = sentLog /\ sleepLog' = sleepLog /\ net' = net]_vars
    /\ [][pc = "returned" => (sentLog' = sentLog /\ sleepLog' = sleepLog /\ net' = net)]_vars
    /\ [](pc = "returned" =>
            /\ StatusOf(resp) = Str("ready")
            /\ outcome = Returned(Get(resp.data, "solution")))

\* A call returned a solution after two PENDING responses.
C1_Witness ==
    /\ pc = "returned"
    /\ pendingSeen = 2
    /\ outcome.value = Str("solution_1")

\* C2: a response whose status is neither "PENDING" nor "ready" (a missing
\* status reads as None) makes getTaskResult raise APIError with the status in
\* the message, in the step that handles it: no sleep and no request follow.
C2_OtherStatusRaises ==
    /\ [][(pc = "received" /\ Handed(resp)
             /\ StatusOf(resp) \notin {Str("PENDING"), Str("ready")})
            => /\ pc' = "raised"
               /\ outcome' = Raised("APIError",
                                    "Unexpected task status: " \o PyStr(StatusOf(resp)))
               /\ sentLog' = sentLog /\ sleepLog' = sleepLog /\ net' = net]_vars
    /\ [][pc = "raised" => (sentLog' = sentLog /\ sleepLog' = sleepLog /\ net' = net)]_vars

\* A call raised on a response without a status field, after a PENDING one.
C2_Witness ==
    /\ pc = "raised"
    /\ pendingSeen = 1
    /\ Handed(resp)
    /\ "status" \notin DOMAIN resp.data
    /\ outcome.msg = "Unexpected task status: None"

\* C3: polling is sequential. At most one request is in flight; every request
\* is a getTaskResult request for the task; every sleep lasts `interval`; and
\* with n PENDING responses observed the call has sent n + 1 requests and slept
\* n times once the next response is awaited, received or has ended the call.
C3_SequentialPolling ==
    /\ Cardinality(net) <= 1
    /\ (net # {}) <=> (pc = "inflight")
    /\ \A i \in DOMAIN sleepLog : sleepLog[i] = interval
    /\ \A i \in DOMAIN sentLog :
          sentLog[i].url = get_url /\ sentLog[i].body.taskId = task_id
    /\ pc = "loop" => Len(sentLog) = pendingSeen /\ Len(sleepLog) = pendingSeen
    /\ pc = "sleeping" => Len(sentLog) = pendingSeen /\ Len(sleepLog) = pendingSeen - 1
    /\ (pc \in {"inflight", "received"} \/ (Terminated /\ resp # NoResponse))
          => Len(sentLog) = pendingSeen + 1 /\ Len(sleepLog) = pendingSeen

\* A call ended after three PENDING responses, four requests and three sleeps.
C3_Witness ==
    /\ Terminated
    /\ pendingSeen = 3
    /\ Len(sentLog) = 4
    /\ Len(sleepLog) = 3

\* C4 (under SpecPollFair): once the service has answered a poll with anything
\* but PENDING the call ends, by return or by raise; and a call that has ended
\* takes no further step.
C4_TerminatesOnNonPending ==
    /\ (pc = "received" /\ ~AnswersPending(resp)) ~> Terminated
    /\ [][~Terminated]_vars

\* A call ended by raising on the status "failed".
C4_Witness ==
    /\ pc = "raised"
    /\ Handed(resp)
    /\ StatusOf(resp) = Str("failed")

\* C5: nothing caps the attempts. A PENDING response always leads to the
\* sleep, the sleep to the next poll, whatever `attempts` is: after N PENDING
\* responses the call has polled N + 1 times; and a call ends only on a
\* response that is not PENDING, so it does not end while the service keeps
\* answering PENDING.
C5_NoAttemptCap ==
    /\ [][(pc = "received" /\ AnswersPending(resp)) => pc' = "sleeping"]_vars
    /\ [][pc = "sleeping" => pc' = "loop"]_vars
    /\ [][(pc = "loop" /\ ~KeyMissing(api_key))
            => (pc' = "inflight" /\ Len(sentLog') = pendingSeen + 1)]_vars
    /\ [](pc = "sleeping" => ENABLED Sleep)
    /\ [](pc = "loop" => ENABLED Poll)
    /\ []((Terminated /\ resp # NoResponse) => ~AnswersPending(resp))

\* The poll after MaxPending PENDING responses is on the wire.
C5_Witness ==
    /\ pc = "inflight"
    /\ pendingSeen = MaxPending
    /\ Len(sentLog) = MaxPending + 1

-----------------------------------------------------------------------------
(* The claims about Tasks.createTask, under SpecCreate.                    *)

\* The field table of the task types: the fields a task of the type must
\* carry, and those it may carry.
RequiredFields(tt) ==
    CASE tt = "KasadaCaptchaSolver" -> {"pjs"}
      [] tt = "Twitch_PublicIntegrity" -> {"access_token", "proxy"}
      [] tt = "IncapsulaReese84Solver" -> {"website", "submit_payload"}
      [] tt = "IncapsulaUTMVCSolver" -> {"website"}
      [] tt = "AkamaiWebSensorSolver" ->
            {"url", "abck", "bmsz", "script", "sensor_url", "count", "data"}
      [] tt = "AkamaiSBSDSolver" -> {"url", "cookie", "sbsd_url", "script"}
      [] tt = "DataDomeSliderSolver" -> {"captcha_url", "country_code"}
      [] tt = "DataDomeInterstitialSolver" -> {"captcha_url", "country_code"}
      [] OTHER -> {}

OptionalFields(tt) ==
    CASE tt = "KasadaCaptchaSolver" -> {"cdOnly"}
      [] tt = "Twitch_PublicIntegrity" -> {"device_id", "client_id"}
      [] tt \in KnownTypes -> {"user_agent"}
      [] OTHER -> {}

\* The keyword argument that supplies a field.
KwargFor(f) == CASE f = "pjs" -> "pjs_url" [] f = "cdOnly" -> "cd_only" [] OTHER -> f

\* The task object of the createTask request the call has sent.
SentTask == sentLog[Len(sentLog)].body.task

\* C6: for each of the eight task types and every set of keyword arguments,
\* the task object sent holds `type`, the required fields of the type, and an
\* optional field exactly when the caller supplied its keyword: no other
\* field, and no optional field standing in as null for an absent keyword.
C6_TaskFieldsPerTable ==
    (sentLog # <<>> /\ task_type \in KnownTypes) =>
        /\ SentTask.type = Str(task_type)
        /\ DOMAIN SentTask =
              {"type"} \cup RequiredFields(task_type)
              \cup {f \in OptionalFields(task_type) : KwargFor(f) \in DOMAIN kwargs}

\* C7: createTask raises APIError unless the response has a status below 400
\* and a JSON body that holds a `taskId` string; what it returns is that
\* string.
C7_ReturnsOnlyTaskId ==
    /\ pc = "returned" =>
          /\ resp.isJson /\ resp.code < 400
          /\ "taskId" \in DOMAIN resp.data
          /\ resp.data["taskId"].t = "str"
          /\ outcome = Returned(resp.data["taskId"])
    /\ (Terminated /\ resp # NoResponse
          /\ ~(resp.isJson /\ resp.code < 400 /\ "taskId" \in DOMAIN resp.data))
          => (pc = "raised" /\ outcome.exc = "APIError")

-----------------------------------------------------------------------------
(* The claims about Client.__init__ and Client._post, under SpecPost.      *)

\* A field of an error body that holds a message: present, not null, not "".
Usable(d, k) == k \in DOMAIN d /\ d[k] # None /\ d[k] # Str("")

\* C8: when _post raises on a status >= 400 with a JSON body, the message is
\* the body's `error_description` if it holds one, else its `error` if it
\* holds one, else "Request failed", for every combination of the two fields;
\* a status >= 400 never returns; a body that is not JSON gives the message
\* that names the status code.
C8_ErrorMessagePrecedence ==
    /\ (Terminated /\ resp.code >= 400) => (pc = "raised" /\ outcome.exc = "APIError")
    /\ (Terminated /\ resp.code >= 400 /\ resp.isJson) =>
          outcome.msg =
              IF Usable(resp.data, "error_description") THEN resp.data["error_description"].v
              ELSE IF Usable(resp.data, "error") THEN resp.data["error"].v
              ELSE "Request failed"
    /\ (Terminated /\ resp # NoResponse /\ ~resp.isJson) =>
          outcome = Raised("APIError", "Invalid response from API (" \o CodeText(resp.code) \o ")")

\* _post raised with the `error` text of a body whose `error_description` is
\* present and empty.
C8_Witness ==
    /\ pc = "raised"
    /\ resp.code = 400
    /\ Get(resp.data, "error_description") = Str("")
    /\ Get(resp.data, "error") = Str("payment")
    /\ outcome.msg = "payment"

\* An api key that is empty or all whitespace.
Blank(key) == \A i \in DOMAIN key : key[i] = " "

\* C9: no request leaves without a credential. Client(...) raises
\* MissingAPIKeyError exactly on a blank key; _post called with a blank key
\* raises MissingAPIKeyError and sends nothing; and every request sent carries
\* `api_key`, equal to the client's key, beside the fields of the payload.
C9_NoRequestWithoutCredential ==
    /\ [](ctor.state = "raised" => Blank(ctor.given))
    /\ [](ctor.state = "ok" => ~Blank(ctor.given))
    /\ [](ctor.state # "ok" => sentLog = <<>>)
    /\ [][(pc = "idle" /\ pc' # "idle" /\ Blank(api_key))
            => /\ pc' = "raised"
               /\ outcome'.exc = "MissingAPIKeyError"
               /\ sentLog' = sentLog /\ net' = net]_vars
    /\ [][sentLog' # sentLog
            => /\ Len(sentLog') = Len(sentLog) + 1
               /\ ~Blank(api_key)
               /\ DOMAIN sentLog'[Len(sentLog')].body = {"api_key"} \cup DOMAIN payload'
               /\ sentLog'[Len(sentLog')].body["api_key"] = api_key
               /\ \A k \in DOMAIN payload' : sentLog'[Len(sentLog')].body[k] = payload'[k]]_vars
    /\ [](\A i \in DOMAIN sentLog : ~Blank(sentLog[i].body["api_key"]))

\* _post raised on a key the caller set to whitespace after construction.
C9_Witness ==
    /\ ctor.state = "ok"
    /\ api_key = <<" ", " ">>
    /\ pc = "raised"
    /\ outcome.exc = "MissingAPIKeyError"
    /\ sentLog = <<>>

-----------------------------------------------------------------------------
(* The claims about AkamaiWeb.fetch_and_extract, under SpecWeb.            *)

\* C10: fetch_and_extract returns no result, with the page GET the only GET
\* issued, in each of three cases taken alone: the page response's status is
\* not 200, it sets no `_abck` cookie, or no script src in its page matches.
C10_EarlyNoResult ==
    /\ [](wpc \in {"page_get", "page_got"} => Len(getLog) = 1)
    /\ [][(wpc = "page_got"
             /\ (\/ wresp.status # 200
                 \/ "_abck" \notin DOMAIN wresp.cookies
                 \/ AkamaiPath(wresp.html) = ""))
            => /\ wpc' = "idle"
               /\ ~wresult'.ok
               /\ getLog' = getLog]_vars

\* A call returned no result after one GET because the page, fetched with
\* status 200 and holding the script src, set no `_abck`.
C10_Witness ==
    /\ wpc = "idle"
    /\ runs = 2
    /\ ~wresult.ok
    /\ Len(getLog) = 1
    /\ wresp.status = 200
    /\ AkamaiPath(wresp.html) # ""
    /\ "_abck" \notin DOMAIN wresp.cookies

\* Whether jar j holds a cookie called name, under any host.
Holds(j, name) == \E h \in DOMAIN j : name \in DOMAIN j[h]

\* C11 (as the claim states it): a result returned after the script GET has
\* a `bm_sz` cookie and a script body that is not empty.
C11_ResultNeedsBmszAndBody ==
    wresult.ok => wresult.bm_sz # "" /\ wresult.script_data # ""

\* C11 (amended): after the script GET a result is returned exactly when the
\* script response's status is 200 and the session jar holds a `bm_sz`
\* cookie; the result carries that cookie and the script body as it came,
\* the empty body included.
C11_ResultIffStatusAndBmsz ==
    [][wpc = "script_got"
         => /\ wresult'.ok <=> (wresp.status = 200 /\ Holds(jar, "bm_sz"))
            /\ wresult'.ok => /\ wresult'.script_data = wresp.text
                              /\ wresult'.bm_sz \in JarGet(jar, "bm_sz")
                              /\ wresult'.bm_sz # ""]_vars

\* A result was returned whose script body is empty.
C11_Witness ==
    /\ wpc = "idle"
    /\ wresult.ok
    /\ wresult.script_data = ""
    /\ wresp.status = 200
    /\ wresp.text = ""
    /\ Holds(jar, "bm_sz")

-----------------------------------------------------------------------------
(* The claims about AkamaiWeb.post_sensor, under SpecSensor.               *)

\* C12: post_sensor returns a result exactly when the POST's response has
\* status 201 and itself sets an `_abck` cookie with a value; otherwise it
\* returns no result, the call ending there. The `_abck` of a result is the
\* one that response set, whatever `_abck` the jar held before.
C12_ResultIffCreatedWithAbck ==
    [][wpc = "sensor_got"
         => /\ wpc' = "idle"
            /\ sresult'.ok <=> /\ wresp.status = 201
                               /\ "_abck" \in DOMAIN wresp.cookies
                               /\ wresp.cookies["_abck"] # ""
            /\ sresult'.ok => sresult'.d["_abck"] = wresp.cookies["_abck"]]_vars

\* post_sensor returned the `_abck` its response set for a.example while the
\* jar held one left by b.example.
C12_Witness ==
    /\ wpc = "idle"
    /\ sresult.ok
    /\ wresp.status = 201
    /\ sresult.d["_abck"] = "_abck@a.example"
    /\ PostHost = "a.example"
    /\ "_abck" \in DOMAIN jar["b.example"]

\* Whether a response's body parses as JSON with success == "false".
SaysFailure(r) == Json(r.text).ok /\ Get(Json(r.text).d, "success") = Str("false")

\* C13 (as the claim states it): post_sensor returns no result whenever the
\* response body parses as JSON with success == "false", whatever the status
\* and the cookies of the response.
C13_SuccessFalseNoResult ==
    (wpc = "idle" /\ Len(postLog) > 0 /\ SaysFailure(wresp)) => ~sresult.ok

\* C13 (amended): a body that parses as JSON with success == "false" gives
\* no result where the status is not 201; at status 201 the body is not
\* read, and a result is returned exactly when the response sets `_abck`.
C13_SuccessFalseReadOffCreated ==
    [][(wpc = "sensor_got" /\ SaysFailure(wresp))
         => (sresult'.ok <=> (wresp.status = 201 /\ CookieGet(wresp.cookies, "_abck") # ""))]_vars

\* post_sensor returned a result on a 201 response whose body says
\* success == "false".
C13_Witness ==
    /\ wpc = "idle"
    /\ sresult.ok
    /\ wresp.status = 201
    /\ SaysFailure(wresp)

-----------------------------------------------------------------------------
(* The claims about the replay loop of examples/akamai_web.py, under       *)
(* SpecReplay.                                                             *)

\* The script is over: it ran to its end, or an exception ended it.
ReplayOver == rpc \in {"done", "KeyError", "APIError"}

\* What round i (from 1) must have been given as abck and bmsz: the values
\* extracted for the first round, those of the post before for the others.
RollingAbck(i) == IF i = 1 THEN wresult.abck ELSE postLog[i - 1].result.d["_abck"]
RollingBmsz(i) == IF i = 1 THEN wresult.bm_sz ELSE postLog[i - 1].result.d["bm_sz"]

\* C14: when fetch_and_extract succeeded, every post_sensor call succeeded
\* and no task call raised, the script ends having run exactly three rounds
\* in order: round i created one AkamaiWebSensorSolver task with count = i,
\* data = the `data` of the solution before ("" first) and abck/bmsz = the
\* values of the post before (those extracted first), and posted the payload
\* of its solution.
C14_ThreeRoundsInOrder ==
    (/\ ReplayOver
     /\ wresult.ok
     /\ rpc # "APIError"
     /\ \A i \in DOMAIN postLog : postLog[i].result.ok)
    => /\ rpc = "done"
       /\ Len(taskLog) = Rounds
       /\ Len(postLog) = Rounds
       /\ \A i \in 1..Rounds :
             /\ taskLog[i].task["type"] = Str("AkamaiWebSensorSolver")
             /\ taskLog[i].task["count"] = PyInt(i - 1)
             /\ taskLog[i].task["data"] = Str(IF i = 1 THEN "" ELSE taskLog[i - 1].solution.data)
             /\ taskLog[i].task["abck"] = Str(RollingAbck(i))
             /\ taskLog[i].task["bmsz"] = Str(RollingBmsz(i))
             /\ postLog[i].body.sensor_data = taskLog[i].solution.payload

\* C15: a post_sensor call that returns no result ends the loop without an
\* exception: the script is over with no further task created and no
\* further POST, and the rolling abck and bmsz are those of the last round
\* that succeeded (those extracted when none did).
C15_FailedPostEndsLoop ==
    /\ [][(rpc = "post" /\ wpc = "idle" /\ Len(postLog) = round + 1 /\ ~sresult.ok)
            => /\ rpc' = "done"
               /\ taskLog' = taskLog
               /\ postLog' = postLog
               /\ current_abck' = current_abck
               /\ current_bmsz' = current_bmsz]_vars
    /\ [][ReplayOver => (rpc' = rpc /\ taskLog' = taskLog /\ postLog' = postLog
                                    /\ getLog' = getLog)]_vars
    /\ []((rpc = "done" /\ wresult.ok /\ ~sresult.ok)
            => /\ Len(taskLog) = Len(postLog)
               /\ current_abck = RollingAbck(Len(postLog))
               /\ current_bmsz = RollingBmsz(Len(postLog)))

\* The first round's post returned no result and the script ended without an
\* exception, one task created, one POST issued, the extracted cookies kept.
C15_Witness ==
    /\ rpc = "done"
    /\ wresult.ok
    /\ Len(postLog) = 1
    /\ ~postLog[1].result.ok
    /\ Len(taskLog) = 1
    /\ current_abck = wresult.abck
    /\ current_bmsz = wresult.bm_sz

-----------------------------------------------------------------------------
(* The claims about AkamaiSBSD.fetch_and_extract, under SpecSbsd.          *)

\* C16: once the script GET has answered 200, fetch_and_extract returns
\* cookie_name "bm_so" with a bm_so value of the jar whenever the jar holds
\* bm_so, sbsd_o held or not; "sbsd_o" with an sbsd_o value only when bm_so
\* is not held; no result when neither is held. The value returned is always
\* one of the cookie named.
C16_BmSoPreferred ==
    /\ [][(wpc = "sbsd_script_got" /\ wresp.status = 200)
            => /\ Holds(jar, "bm_so")
                    => /\ bresult'.ok
                       /\ bresult'.cookie_name = "bm_so"
                       /\ bresult'.cookie_value \in JarGet(jar, "bm_so")
               /\ (~Holds(jar, "bm_so") /\ Holds(jar, "sbsd_o"))
                    => /\ bresult'.ok
                       /\ bresult'.cookie_name = "sbsd_o"
                       /\ bresult'.cookie_value \in JarGet(jar, "sbsd_o")
               /\ (~Holds(jar, "bm_so") /\ ~Holds(jar, "sbsd_o")) => ~bresult'.ok]_vars
    /\ [](bresult.ok
            => /\ bresult.cookie_name \in {"bm_so", "sbsd_o"}
               /\ bresult.cookie_value \in {bresult.cookie_name \o "@" \o h : h \in Hosts})

\* A result named bm_so while the jar held sbsd_o as well.
C16_Witness ==
    /\ wpc = "idle"
    /\ bresult.ok
    /\ bresult.cookie_name = "bm_so"
    /\ bresult.cookie_value = "bm_so@a.example"
    /\ Holds(jar, "sbsd_o")

-----------------------------------------------------------------------------
(* The claims about AkamaiSBSD.post_sbsd, under SpecSbsdPost.              *)

\* Whether a payload is base64 as RFC 4648 writes it: groups of four
\* characters of the alphabet, the last group padded with at most two "=".
ValidBase64(p) ==
    /\ Len(p) % 4 = 0
    /\ \A i \in DOMAIN p :
          \/ p[i] \in B64Alphabet
          \/ /\ p[i] = "="
             /\ i > Len(p) - 2
             /\ \A k \in i..Len(p) : p[k] = "="

\* C17 (as the claim states it): a payload that does not decode makes
\* post_sbsd raise a decode error to its caller.
C17_DecodeFailureRaises ==
    (runs > 0 /\ ~DecodePayload(sbsd_payload).ok) => presult.exc # ""

\* C17 (amended): no exception leaves post_sbsd; a payload that b64decode or
\* the UTF-8 decoding rejects ends the call with no result.
C17_DecodeFailureIsSoft ==
    /\ [](presult.exc = "")
    /\ []((runs > 0 /\ ~DecodePayload(sbsd_payload).ok) => (wpc = "idle" /\ ~presult.ok))

\* post_sbsd was given three characters of the alphabet, which b64decode
\* rejects for their padding, and returned no result.
C17_Witness ==
    /\ runs = 1
    /\ sbsd_payload = <<"Q", "Q", "Q">>
    /\ wpc = "idle"
    /\ ~presult.ok
    /\ presult.exc = ""

\* C18 (as the claim states it): a payload that is not valid base64 gets no
\* POST issued.
C18_InvalidBase64NoPost ==
    (runs > 0 /\ ~ValidBase64(sbsd_payload)) => postLog = <<>>

\* C18 (amended): a payload that b64decode or the UTF-8 decoding rejects
\* ends the call at once, with no POST issued and the jar and the session
\* headers as they were; every other payload is posted, one that is not
\* valid base64 but decodes once its stray characters are skipped included.
C18_RejectedPayloadNoPost ==
    /\ [][(runs' # runs /\ ~DecodePayload(sbsd_payload').ok)
            => /\ wpc' = "idle"
               /\ postLog' = postLog
               /\ jar' = jar
               /\ hdrs' = hdrs]_vars
    /\ [](runs > 0 => (DecodePayload(sbsd_payload).ok <=> Len(postLog) = 1))

\* post_sbsd was given one character, which b64decode rejects, on a session
\* holding a cookie and a header: nothing was posted.
C18_Witness ==
    /\ runs = 1
    /\ sbsd_payload = <<"Q">>
    /\ wpc = "idle"
    /\ postLog = <<>>
    /\ Holds(jar, "bm_so")
    /\ hdrs # {}

\* C19: once the POST of a decoded payload is answered, post_sbsd returns a
\* result exactly when the status is 200 and the session jar, the response's
\* cookies stored, holds a cookie; the result has every cookie name of the
\* jar with a value the jar holds for it; otherwise it returns no result,
\* and in no case an exception leaves it.
C19_PostedIffOkAndCookies ==
    [][wpc = "sbsd_posted"
         => /\ wpc' = "idle"
            /\ presult'.exc = ""
            /\ presult'.ok <=> (wresp.status = 200 /\ \E h \in Hosts : DOMAIN jar[h] # {})
            /\ presult'.ok
                 => /\ DOMAIN presult'.cookies = UNION {DOMAIN jar[h] : h \in Hosts}
                    /\ \A n \in DOMAIN presult'.cookies :
                          presult'.cookies[n] \in JarGet(jar, n)]_vars

\* post_sbsd returned the cookie the jar held before and the one the
\* response set.
C19_Witness ==
    /\ wpc = "idle"
    /\ presult.ok
    /\ wresp.status = 200
    /\ DOMAIN presult.cookies = {"bm_so", "sbsd_o"}
    /\ "sbsd_o" \in DOMAIN wresp.cookies
    /\ "bm_so" \notin DOMAIN wresp.cookies

-----------------------------------------------------------------------------
(* The claim about runs on one client, under SpecWeb.                      *)

\* C20: every session cookie of a returned context was set by the origin of
\* the context's base_url: abck and bm_sz of an AkamaiWeb result, the cookie
\* of an AkamaiSBSD result.
C20_CookiesFromBaseOrigin ==
    /\ wresult.ok => /\ wresult.abck = "_abck@" \o wresult.base_url.host
                     /\ wresult.bm_sz = "bm_sz@" \o wresult.base_url.host
    /\ bresult.ok => bresult.cookie_value = bresult.cookie_name \o "@" \o bresult.base_url.host

-----------------------------------------------------------------------------
(* The claims about the shared session, under SpecWeb.                     *)

\* A step that starts an extraction run: the call of either fetch_and_extract
\* up to its first GET.
StartsRun == wpc = "idle" /\ wpc' \in {"page_get", "sbsd_page_get"}

\* C21: each extraction run resets the session before its first request: both
\* the session headers and the session cookies are cleared, so the jar is
\* empty when the initial GET is sent.
C21_SessionResetBeforeRun == [][StartsRun => hdrs' = {} /\ jar' = EmptyJar]_vars

\* The cookie values that responses to workflow w's own requests set.
OwnValues(w) ==
    {k \o "@" \o h \o "#" \o ToString(w) : k \in {"_abck", "bm_sz"}, h \in Hosts}

\* Workflow w returned a result holding a cookie that a response to the other
\* workflow's request wrote.
HarvestedForeign(w) ==
    /\ wf[w].result.ok
    /\ \E v \in Workflows \ {w} :
          wf[w].result.abck \in OwnValues(v) \/ wf[w].result.bm_sz \in OwnValues(v)

\* C22: under SpecRace, a workflow harvests a cookie written by a response to
\* the other workflow's request only when the two workflows share one client
\* instance; with a client (and so a cookie jar) of its own per workflow no
\* interleaving produces it.
C22_RaceOnlyWhenShared == \A w \in Workflows : HarvestedForeign(w) => shared

\* An interleaving on a shared client in which a workflow returned the other
\* workflow's bm_sz beside its own _abck.
C22_Witness ==
    \E w \in Workflows :
        /\ shared
        /\ HarvestedForeign(w)
        /\ wf[w].result.abck \in OwnValues(w)
        /\ wf[w].result.bm_sz \notin OwnValues(w)

-----------------------------------------------------------------------------
(* The claims about single calls, under SpecCalls.                         *)

\* A step that puts a request on the wire: a createTask request, a GET or a
\* POST to a target site.
Sends ==
    \/ Len(sentLog') > Len(sentLog)
    \/ Len(getLog') > Len(getLog)
    \/ Len(postLog') > Len(postLog)

\* The page response the call holds passed every check of its extractor:
\* status 200 and a script URL in the page and, for Akamai-Web, a non-empty
\* `_abck` set by the response.
FirstPassed ==
    /\ wresp.status = 200
    /\ wpc = "page_got" => /\ AkamaiPath(wresp.html) # ""
                           /\ "_abck" \in DOMAIN wresp.cookies
                           /\ wresp.cookies["_abck"] # ""
    /\ wpc = "sbsd_page_got" => get_sbsd_url(wresp.html, BaseUrl(website_url)) # NoUrl

\* createTask got past the credential guard of _post and has ended.
CreateEnded ==
    \/ pc = "returned"
    \/ pc = "raised" /\ outcome.exc # "MissingAPIKeyError"

\* C23: no automatic retry outside the polling loop. One call sends at most
\* one createTask request (exactly one once createTask has ended past the
\* credential guard), at most two GETs and at most one POST; a request is
\* sent only at the start of the call, or as the second GET of an extraction
\* whose first response passed every check; so a failed step is never
\* re-issued.
C23_NoRetry ==
    /\ [](Len(sentLog) <= 1 /\ Len(getLog) <= 2 /\ Len(postLog) <= 1)
    /\ [](CreateEnded => Len(sentLog) = 1)
    /\ [][Sends => \/ NotCalled
                   \/ /\ Len(getLog) = 1 /\ Len(getLog') = 2
                      /\ wpc \in {"page_got", "sbsd_page_got"}
                      /\ FirstPassed]_vars

\* Calls that ended on a failed response with nothing sent again: an
\* extraction whose page was refused, after its one GET.
C23_Witness ==
    /\ wpc = "idle" /\ runs = 1
    /\ Len(getLog) = 1 /\ postLog = <<>>
    /\ wresp.status = 403
    /\ ~wresult.ok /\ ~bresult.ok

-----------------------------------------------------------------------------
(* The claims about the Datadome parse functions, under SpecDd.            *)

\* The page's `var dd=` text is an object, and whether it has field i.
IsObjectPage == dd_page.label = "object"
Has(i) == i \in DOMAIN dd_page.obj
Blocked == Has(TField) /\ dd_page.obj[TField] = Src("str", <<"b", "v">>)

\* C24: parse_slider_url returns no result, and raises nothing, whenever the
\* `t` of the parsed `var dd=` object equals "bv"; with any other `t`, or
\* none, it returns a URL.
C24_BlockedGivesNoResult ==
    (dd_call = "parse_slider_url" /\ IsObjectPage) =>
        IF Blocked THEN dd_out = DdNone ELSE dd_out.kind = "return"

\* The slider parse of a page whose object has t = "bv" beside another field.
C24_Witness ==
    /\ dd_call = "parse_slider_url" /\ IsObjectPage /\ Blocked
    /\ Cardinality(DOMAIN dd_page.obj) = 2
    /\ dd_out = DdNone

\* C25: both parse functions raise the parse error (RuntimeError), and never
\* return a URL or no result, when the page lacks the `var dd=` marker or the
\* text between the marker and the next `</script>` does not parse as an
\* object.
C25_ParseErrorOnBadInput ==
    (dd_call # "" /\ ~IsObjectPage) => dd_out = DdRaise("RuntimeError")

\* str() of field i of the page's object, "None" when it has none.
FieldText(i) ==
    IF ~Has(i) THEN <<"N", "o", "n", "e">>
    ELSE CASE dd_page.obj[i].t = "null" -> <<"N", "o", "n", "e">>
           [] dd_page.obj[i].t = "list" -> <<"[", "'">> \o dd_page.obj[i].s \o <<"'", "]">>
           [] OTHER -> dd_page.obj[i].s

SliderUrl ==
    "https://geo.captcha-delivery.com/captcha/?"
    \o "initialCid=" \o quote_plus(FieldText(1))
    \o "&hash=" \o quote_plus(FieldText(2))
    \o "&cid=" \o quote_plus(datadome_cookie)
    \o "&t=" \o quote_plus(FieldText(3))
    \o "&referer=" \o quote_plus(referer)
    \o "&s=" \o quote_plus(FieldText(4))
    \o "&e=" \o quote_plus(FieldText(5))
    \o "&dm=cd"

InterstitialUrl ==
    "https://geo.captcha-delivery.com/interstitial/?"
    \o "initialCid=" \o quote_plus(FieldText(1))
    \o "&hash=" \o quote_plus(FieldText(2))
    \o "&cid=" \o quote_plus(datadome_cookie)
    \o "&referer=" \o quote_plus(referer)
    \o "&s=" \o quote_plus(FieldText(4))
    \o "&e=" \o quote_plus(FieldText(5))
    \o "&b=" \o quote_plus(FieldText(6))
    \o "&dm=cd"

\* C26: the URLs have fixed parameter names and order. Every URL
\* parse_slider_url returns is the captcha base followed by initialCid, hash,
\* cid, t, referer, s, e, dm; parse_interstitial_url returns, for every
\* object, the interstitial base followed by initialCid, hash, cid, referer,
\* s, e, b, dm; with initialCid = dd.cid, hash = dd.hsh, cid = the cookie
\* given and dm = "cd", each value urlencoded.
C26_FixedParameterOrder ==
    IsObjectPage =>
        /\ (dd_call = "parse_slider_url" /\ dd_out.kind = "return") => dd_out = DdUrl(SliderUrl)
        /\ dd_call = "parse_interstitial_url" => dd_out = DdUrl(InterstitialUrl)

\* The interstitial URL of a page whose object gives e and b, different.
C26_Witness ==
    /\ dd_call = "parse_interstitial_url" /\ IsObjectPage
    /\ Has(5) /\ Has(6) /\ dd_page.obj[5] # dd_page.obj[6]
    /\ dd_out = DdUrl(InterstitialUrl)

-----------------------------------------------------------------------------
(* The claim about the sec-ch-ua header, under SpecUa.                     *)

\* Position i of the user agent starts a `Chrome/<digits>` token.
ChromeToken(i) ==
    /\ i < Len(user_agent)
    /\ user_agent[i] = "Chrome/"
    /\ IsDigit(user_agent[i + 1])

\* The digits from position i up to position j, and that they end there.
RECURSIVE Digits(_, _)
Digits(i, j) == IF i > j THEN "" ELSE user_agent[i] \o Digits(i + 1, j)
VersionAt(i, j) ==
    /\ \A k \in (i + 1)..j : IsDigit(user_agent[k])
    /\ j = Len(user_agent) \/ ~IsDigit(user_agent[j + 1])

\* The value the claim gives for the user agent: the version of the first
\* `Chrome/<digits>` token, twice; 122 twice when there is no such token.
ClaimedSecChUa(value) ==
    IF \E i \in 1..Len(user_agent) : ChromeToken(i)
    THEN \E i \in 1..Len(user_agent), j \in 1..Len(user_agent) :
            /\ ChromeToken(i) /\ \A k \in 1..(i - 1) : ~ChromeToken(k)
            /\ j > i /\ VersionAt(i, j)
            /\ value = "\"Chromium\";v=\"" \o Digits(i + 1, j) \o "\", \"Google Chrome\";v=\""
                       \o Digits(i + 1, j) \o "\", \"Not?A_Brand\";v=\"99\""
    ELSE value = "\"Chromium\";v=\"122\", \"Google Chrome\";v=\"122\", \"Not?A_Brand\";v=\"99\""

\* C27: the sec-ch-ua value embeds the Chrome major version of the first
\* `Chrome/<digits>` token of the user agent twice (for Chromium and for
\* Google Chrome), and 122 in both places when the user agent has no such
\* token; the Akamai-Web and the SBSD extractor derive the same value from
\* the same user agent.
C27_SecChUaVersion ==
    /\ web_sec_ch_ua # "" => ClaimedSecChUa(web_sec_ch_ua)
    /\ sbsd_sec_ch_ua # "" => ClaimedSecChUa(sbsd_sec_ch_ua)
    /\ (web_sec_ch_ua # "" /\ sbsd_sec_ch_ua # "") => web_sec_ch_ua = sbsd_sec_ch_ua

\* Both extractors derived the header from a user agent whose first
\* `Chrome/` is followed by no digit and whose second one by two.
C27_Witness ==
    /\ Len(user_agent) = 5
    /\ user_agent[1] = "Chrome/" /\ ~IsDigit(user_agent[2])
    /\ ChromeToken(3) /\ IsDigit(user_agent[5])
    /\ web_sec_ch_ua # "" /\ sbsd_sec_ch_ua = web_sec_ch_ua

-----------------------------------------------------------------------------
(* The claim about the results of both extractors, under SpecExtract.      *)

\* C28: every result of AkamaiWeb.fetch_and_extract has base_url,
\* akamai_url, abck and bm_sz non-empty, akamai_url on the origin of base_url,
\* and base_url the scheme and host of the website_url asked for; every result
\* of AkamaiSBSD.fetch_and_extract has sbsd_url and cookie_value non-empty and
\* cookie_name one of bm_so and sbsd_o.
C28_ResultsWellFormed ==
    /\ [][(wpc = "script_got" /\ wresult'.ok)
            => /\ wresult'.base_url = [scheme |-> website_url.scheme,
                                       host |-> website_url.host, path |-> ""]
               /\ wresult'.base_url.scheme # "" /\ wresult'.base_url.host # ""
               /\ wresult'.akamai_url.scheme = wresult'.base_url.scheme
               /\ wresult'.akamai_url.host = wresult'.base_url.host
               /\ wresult'.akamai_url.path # ""
               /\ wresult'.abck # ""
               /\ wresult'.bm_sz # ""]_vars
    /\ [][(wpc = "sbsd_script_got" /\ bresult'.ok)
            => /\ bresult'.sbsd_url.host # "" /\ bresult'.sbsd_url.path # ""
               /\ bresult'.cookie_value # ""
               /\ bresult'.cookie_name \in {"bm_so", "sbsd_o"}]_vars

\* A client that holds a result of each extractor, the Akamai-Web one for a
\* website URL with a path.
C28_Witness ==
    /\ wpc = "idle"
    /\ wresult.ok /\ wresult.base_url.host = "a.example" /\ wresult.akamai_url.path # ""
    /\ bresult.ok /\ bresult.cookie_name = "sbsd_o"

-----------------------------------------------------------------------------
(* The claim about a failing poll, under SpecPoll.                         *)

\* The poll's response makes _post raise: a status >= 400 or a body that is
\* not JSON.
PollFailed(r) == ~r.isJson \/ r.code >= 400

-----------------------------------------------------------------------------
(* The claim about a task type createTask has no branch for, under         *)
(* SpecCreate.                                                              *)

\* createTask is being called with a type outside the eight known ones.
CallsUnknown == pc = "idle" /\ task_type' \notin KnownTypes

\* The call in progress or ended is one with such a type.
UnknownCalled == pc # "idle" /\ task_type \notin KnownTypes

=============================================================================
